---- MODULE Spec2Model ----
(***************************************************************************)
(* smsremind: the idempotency lock (idempotency/lock.go), the idempotency  *)
(* store (idempotency/store.go) and the orchestrator run() of main.go,     *)
(* as a state machine of several operating-system processes that share one *)
(* state directory (the lock file and the store file) and one wall clock.  *)
(*                                                                         *)
(* Time is counted in ticks, TicksPerSecond ticks to the second, so that   *)
(* the second-precision timestamp of the lock record (time.RFC3339) is a   *)
(* real truncation of the instant time.Now() returned.                     *)
(***************************************************************************)
EXTENDS Integers, Sequences, FiniteSets, TLC

(* ------------------------------ bounds -------------------------------- *)
\* invocations of the program in one behaviour
MaxRuns == 2
\* advances of the wall clock in one behaviour
MaxTicks == 1
\* resolution of the clock: ticks per second
TicksPerSecond == 2
\* events the calendar server returns to a fetch
MaxEvents == 2
\* largest maxAge, in ticks, handed to AcquireLock when it is checked alone
MaxD == 3
\* calls of AcquireLock in one behaviour of the lock alone
MaxCalls == 3
\* last instant of the clock, in ticks, for the lock and the store alone
MaxNow == 3
\* calls on the Store in one behaviour of the store alone
MaxOps == 3
\* Mark and Delete calls in one behaviour of saveLocked step by step
MaxSaves == 2
\* last start instant, in ticks, of the events a key is derived for
MaxStart == 3
\* largest -offset, in days, a key is derived for
MaxOffset == 2

(* ------------------------- program constants --------------------------- *)
\* main.go:50  idempotency.AcquireLock(lockPath, 1*time.Minute)
LockMaxAgeSeconds == 60
\* main.go:27  flag.Int("offset", 1, ...)
DefaultOffset == 1
\* main.go:53  os.Exit(0)
ExitQuiet == 0
\* main.go:39  log.Fatal -> os.Exit(1)
ExitFatal == 1

\* the process slots: two invocations can overlap
Procs == {1, 2}

VARIABLES
  now,        \* the wall clock, in ticks
  maxAge,     \* the maxAge argument of AcquireLock, in ticks
  lockFile,   \* the file at lockPath
  storeFile,  \* the file at statePath (sent.json)
  calendar,   \* the events the calendar server returns to execute()
  sent,       \* per key: how often the send capability was invoked and returned nil
  pc,         \* per process: where it stands in run()
  acqNow,     \* per process: `now` of AcquireLock (lock.go:20)
  dry,        \* per process: the -dry-run flag of this invocation
  data,       \* per process: Store.data, the in-memory mapping
  idx,        \* per process: position of the range loop over events
  log,        \* per process: the send and Mark calls of this invocation
  result,     \* per process: how the invocation ended
  exitCode,   \* per process: the exit code of the ended invocation
  runs,       \* invocations started so far
  cleanDone,  \* an invocation without -dry-run has returned nil
  tmpFile,    \* the file at statePath + ".tmp" (sent.json.tmp)
  arg,        \* the inputs of the function that is applied on its own
  ret,        \* what the function returned for them
  server,     \* the calendars the CalDAV server holds, with their blobs
  filter,     \* query.Calendars: the names of -calendars
  net,        \* the requests execute() has issued, in order
  ci,         \* position of execute()'s range loop over the calendars
  fetched     \* execute()'s events slice

\* the state beside the lock, the store file and the runs of run()
saveVars == <<tmpFile>>
pureVars == <<arg, ret>>
fetchVars == <<server, filter, net, ci, fetched>>
auxVars == <<saveVars, pureVars, fetchVars>>

vars == <<now, maxAge, lockFile, storeFile, calendar, sent, pc, acqNow, dry,
          data, idx, log, result, exitCode, runs, cleanDone, auxVars>>

(* ------------------------------- time ---------------------------------- *)
\* now.Format(time.RFC3339) of a UTC instant: the text holds whole seconds
FormatRFC3339(t) == t \div TicksPerSecond

\* time.Parse(time.RFC3339, s): the instant of the text's whole second
ParseRFC3339(s) == s * TicksPerSecond

OneMinute == LockMaxAgeSeconds * TicksPerSecond

\* the UTC offsets, in seconds, of the Locations an event's Start can carry:
\* time.UTC for the ...Z forms, the TZID's or -timezone's Location otherwise
Zones == {0, 1}

\* t.Format(time.RFC3339) of an instant in a Location of UTC offset z: the
\* wall clock of that Location in whole seconds, followed by the offset
FormatRFC3339In(t, z) == <<(t \div TicksPerSecond) + z, z>>

(* ------------------------------ events --------------------------------- *)
\* cal.Event, with the phone number EventPhoneNumber finds in its texts
\* ("" when Summary, Description and Comment hold none)
Event1 == [UID |-> "E1", Start |-> 2, zone |-> 1, num |-> "+436604670967"]
Event2 == [UID |-> "E2", Start |-> 5, zone |-> 0, num |-> ""]
Event3 == [UID |-> "E3", Start |-> 5, zone |-> 1, num |-> "+436604670968"]

\* the events on the server, in the order the server lists them
Events == <<Event1, Event2, Event3>>

EventPhoneNumber(event) == event.num

\* event.UID + "|" + event.Start.Format(time.RFC3339) + "|T-<offset>d"
eventMessageKey(event, offset) ==
  <<event.UID, FormatRFC3339In(event.Start, event.zone), offset>>

\* the events of Events at the positions in S, in order
RECURSIVE Selected(_, _)
Selected(S, i) ==
  IF i > Len(Events) THEN <<>>
  ELSE IF i \in S THEN <<Events[i]>> \o Selected(S, i + 1)
  ELSE Selected(S, i + 1)

\* what execute() can return: the events of the queried day and calendars
Calendars ==
  { Selected(S, 1) : S \in {T \in SUBSET (1..Len(Events)) : Cardinality(T) <= MaxEvents} }

AllKeys == { eventMessageKey(Events[i], DefaultOffset) : i \in 1..Len(Events) }

(* ----------------------------- lock file ------------------------------- *)
\* no file at lockPath
NoLock == [exists |-> FALSE, ino |-> 0, written |-> FALSE, pid |-> 0, ts |-> 0]

\* os.OpenFile(path, O_CREATE|O_EXCL|O_WRONLY): a new, empty file, whose
\* inode is named after the process that created it
CreatedLock(p) ==
  [exists |-> TRUE, ino |-> p, written |-> FALSE, pid |-> 0, ts |-> 0]

\* fmt.Fprintf(f, "%d %s\n", os.Getpid(), now.Format(time.RFC3339)) on the
\* descriptor of inode p: lost when lockPath no longer names that inode
WrittenLock(f, p, t) ==
  IF f.exists /\ f.ino = p
  THEN [f EXCEPT !.written = TRUE, !.pid = p, !.ts = FormatRFC3339(t)]
  ELSE f

\* parseLockInfo: an empty file has fewer than two fields
parseLockInfo(f) ==
  IF f.written
  THEN [ok |-> TRUE, pid |-> f.pid, ts |-> ParseRFC3339(f.ts)]
  ELSE [ok |-> FALSE, pid |-> 0, ts |-> 0]

\* a staleness test that still takes a record of exactly maxAge for fresh
LockIsFreshInclusive(t, ts, d) == t - ts <= d

\* now.Sub(ts) < maxAge (lock.go:38)
LockIsFresh(t, ts, d) == t - ts < d

(* ------------------------------- store --------------------------------- *)
EmptyData == [k \in {} |-> 0]

\* an encoder that leaves out one member of a mapping of two or more keys
MarshalDropsMember(d) ==
  [recs |-> {<<k, d[k]>> : k \in DOMAIN d} \
              (IF Cardinality(DOMAIN d) > 1
               THEN {CHOOSE r \in {<<k, d[k]>> : k \in DOMAIN d} : TRUE}
               ELSE {}),
   closed |-> TRUE]

\* json.MarshalIndent(s.data, "", "  "): one member per key, its value the
\* instant as text (time.Time marshals with its full precision), and the
\* object closed
Marshal(d) == [recs |-> {<<k, d[k]>> : k \in DOMAIN d}, closed |-> TRUE]

\* the text of a file that was created or truncated and not written yet
EmptyText == [recs |-> {}, closed |-> FALSE]

\* the texts a write of text can leave behind when it stops before its end
Partial(text) == {[recs |-> r, closed |-> FALSE] : r \in SUBSET text.recs}

\* json.Unmarshal(b, &raw): an error unless the text is one complete object
Unmarshal(text) ==
  IF text.closed
  THEN [ok |-> TRUE,
        data |-> [k \in {r[1] : r \in text.recs} |->
                    (CHOOSE r \in text.recs : r[1] = k)[2]]]
  ELSE [ok |-> FALSE, data |-> EmptyData]

\* no file at the path
NoStore == [exists |-> FALSE, text |-> EmptyText]

\* Store.load returns an error: the file is there and does not decode
loadFails(f) == f.exists /\ ~Unmarshal(f.text).ok

\* an Open that does not read the file
loadNothing(f) == EmptyData

\* Store.load: the mapping of the file, the empty mapping without a file
load(f) == IF f.exists THEN Unmarshal(f.text).data ELSE EmptyData

\* s.data[key] = time.Now().UTC()
MarkData(d, k, t) == [x \in (DOMAIN d) \cup {k} |-> IF x = k THEN t ELSE d[x]]

\* delete(s.data, key)
DeleteData(d, k) == [x \in (DOMAIN d) \ {k} |-> d[x]]

\* a store that knows no key
ExistsNever(d, k) == FALSE

\* Store.Exists
Exists(d, k) == k \in DOMAIN d

\* saveLocked without an I/O error: the file holds the whole mapping
SavedStore(d) == [exists |-> TRUE, text |-> Marshal(d)]

(* --------------------------- initial state ----------------------------- *)
AuxInit ==
  /\ tmpFile = NoStore
  /\ arg = <<>>
  /\ ret = <<>>
  /\ server = <<>>
  /\ filter = <<>>
  /\ net = <<>>
  /\ ci = 0
  /\ fetched = <<>>

ProcInit ==
  /\ pc = [p \in Procs |-> "idle"]
  /\ acqNow = [p \in Procs |-> 0]
  /\ dry = [p \in Procs |-> FALSE]
  /\ data = [p \in Procs |-> EmptyData]
  /\ idx = [p \in Procs |-> 0]
  /\ log = [p \in Procs |-> <<>>]
  /\ result = [p \in Procs |-> ""]
  /\ exitCode = [p \in Procs |-> 0]
  /\ runs = 0
  /\ cleanDone = FALSE

Init ==
  /\ now = 0
  /\ maxAge = OneMinute
  /\ lockFile = NoLock
  /\ storeFile = NoStore
  /\ calendar \in Calendars
  /\ sent = [k \in AllKeys |-> 0]
  /\ ProcInit
  /\ AuxInit

(* ----------------------------- the clock ------------------------------- *)
\* advances made so far, the clock moving by one tick or by maxAge
TicksTaken(t) == (t \div maxAge) + (t % maxAge)

Tick ==
  /\ TicksTaken(now) < MaxTicks
  /\ \E d \in {1, maxAge} : now' = now + d
  /\ UNCHANGED <<maxAge, lockFile, storeFile, calendar, sent, pc, acqNow, dry,
                 data, idx, log, result, exitCode, runs, cleanDone>>
  /\ UNCHANGED auxVars

(* --------------------------- process exits ----------------------------- *)
\* the process ends with this code: its memory is gone, the files stay
Ends(p, code, why) ==
  /\ pc' = [pc EXCEPT ![p] = "exited"]
  /\ result' = [result EXCEPT ![p] = why]
  /\ exitCode' = [exitCode EXCEPT ![p] = code]
  /\ acqNow' = [acqNow EXCEPT ![p] = 0]
  /\ dry' = [dry EXCEPT ![p] = FALSE]
  /\ data' = [data EXCEPT ![p] = EmptyData]
  /\ idx' = [idx EXCEPT ![p] = 0]

\* the process goes on to the next statement
GoesTo(p, next) ==
  /\ pc' = [pc EXCEPT ![p] = next]
  /\ UNCHANGED <<result, exitCode, acqNow, dry>>

\* Lock.Release: os.Remove(l.path), whatever the file holds
Release == lockFile' = NoLock

\* run() returns err: the deferred lock.Release() runs, then main's
\* log.Fatal(err) exits with 1
ReturnsErr(p, why) == Ends(p, ExitFatal, why) /\ Release

\* run() returns nil: the deferred lock.Release() runs, main returns
ReturnsNil(p) == Ends(p, ExitQuiet, "ok") /\ Release

\* log.Fatal inside run(): os.Exit(1) runs no deferred call
FatalInRun(p, why) == Ends(p, ExitFatal, why) /\ UNCHANGED lockFile

\* AcquireLock returned an error: run() calls os.Exit(0)
QuietExit(p, why) == Ends(p, ExitQuiet, why) /\ UNCHANGED lockFile

(* ------------------------- run(): start, lock -------------------------- *)
\* A new invocation: flag.Parse, template.New("output").Parse(*msg), then
\* AcquireLock's now := time.Now().UTC()
Start(p) ==
  /\ pc[p] \in {"idle", "exited"}
  /\ runs < MaxRuns
  /\ runs' = runs + 1
  /\ log' = [log EXCEPT ![p] = <<>>]
  /\ \E d \in BOOLEAN, tmplOk \in BOOLEAN :
       IF tmplOk
       THEN /\ pc' = [pc EXCEPT ![p] = "acq_create"]
            /\ result' = [result EXCEPT ![p] = ""]
            /\ exitCode' = [exitCode EXCEPT ![p] = 0]
            /\ acqNow' = [acqNow EXCEPT ![p] = now]
            /\ dry' = [dry EXCEPT ![p] = d]
            /\ UNCHANGED <<data, idx>>
       ELSE Ends(p, ExitFatal, "template-parse")
  /\ UNCHANGED <<now, maxAge, lockFile, storeFile, calendar, sent, cleanDone>>
  /\ UNCHANGED auxVars

\* lock.go:23  the first tryCreateLock: the exclusive create
TryCreateLock(p) ==
  /\ pc[p] = "acq_create"
  /\ IF ~lockFile.exists
     THEN lockFile' = CreatedLock(p) /\ GoesTo(p, "acq_write")
     ELSE UNCHANGED lockFile /\ GoesTo(p, "acq_read")
  /\ UNCHANGED <<now, maxAge, storeFile, calendar, sent, data, idx, log, runs, cleanDone>>
  /\ UNCHANGED auxVars

\* lock.go:67  tryCreateLock writes the record and AcquireLock returns the Lock
WriteLock(p) ==
  /\ pc[p] = "acq_write"
  /\ lockFile' = WrittenLock(lockFile, p, acqNow[p])
  /\ GoesTo(p, "open")
  /\ UNCHANGED <<now, maxAge, storeFile, calendar, sent, data, idx, log, runs, cleanDone>>
  /\ UNCHANGED auxVars

\* lock.go:28-40  os.ReadFile, parseLockInfo, the staleness test
ReadLock(p) ==
  /\ pc[p] = "acq_read"
  /\ LET info == parseLockInfo(lockFile)
     IN  IF ~lockFile.exists THEN QuietExit(p, "lock-read")
         ELSE IF ~info.ok THEN QuietExit(p, "lock-invalid")
         ELSE IF LockIsFresh(acqNow[p], info.ts, maxAge)
              THEN QuietExit(p, "held")
         ELSE /\ GoesTo(p, "acq_remove")
              /\ UNCHANGED <<lockFile, data, idx>>
  /\ UNCHANGED <<now, maxAge, storeFile, calendar, sent, log, runs, cleanDone>>
  /\ UNCHANGED auxVars

\* lock.go:43  _ = os.Remove(path)
RemoveStale(p) ==
  /\ pc[p] = "acq_remove"
  /\ lockFile' = NoLock
  /\ GoesTo(p, "acq_retry")
  /\ UNCHANGED <<now, maxAge, storeFile, calendar, sent, data, idx, log, runs, cleanDone>>
  /\ UNCHANGED auxVars

\* lock.go:45-49  the second tryCreateLock
RetryCreateLock(p) ==
  /\ pc[p] = "acq_retry"
  /\ IF ~lockFile.exists
     THEN /\ lockFile' = CreatedLock(p)
          /\ GoesTo(p, "acq_write")
          /\ UNCHANGED <<data, idx>>
     ELSE QuietExit(p, "lock-retry")
  /\ UNCHANGED <<now, maxAge, storeFile, calendar, sent, log, runs, cleanDone>>
  /\ UNCHANGED auxVars

(* -------------------- run(): store, configuration ---------------------- *)
\* main.go:57-62  idempotency.Open(statePath); a read or decode error returns
OpenStore(p) ==
  /\ pc[p] = "open"
  /\ \E ioOk \in BOOLEAN :
       IF ioOk /\ ~loadFails(storeFile)
       THEN /\ data' = [data EXCEPT ![p] = load(storeFile)]
            /\ GoesTo(p, "config")
            /\ UNCHANGED <<lockFile, idx>>
       ELSE ReturnsErr(p, "store-open")
  /\ UNCHANGED <<now, maxAge, storeFile, calendar, sent, log, runs, cleanDone>>
  /\ UNCHANGED auxVars

\* main.go:64-89  cal.ParseCaldavURL returns its error; a failed
\* time.LoadLocation ends in log.Fatal("timezone:", err); execute() returns
\* the events or its error
Prepare(p) ==
  /\ pc[p] = "config"
  /\ \E c \in {"ok", "caldav-url", "timezone", "fetch"} :
       IF c = "ok"
       THEN /\ GoesTo(p, "loop")
            /\ idx' = [idx EXCEPT ![p] = 1]
            /\ UNCHANGED <<lockFile, data>>
       ELSE IF c = "timezone" THEN FatalInRun(p, c)
       ELSE ReturnsErr(p, c)
  /\ UNCHANGED <<now, maxAge, storeFile, calendar, sent, log, runs, cleanDone>>
  /\ UNCHANGED auxVars

(* ------------------------ run(): the event loop ------------------------ *)
\* the NotificationKey of the event the loop stands at
CurrentKey(p) == eventMessageKey(calendar[idx[p]], DefaultOffset)

SendEntry(k, ok) == [op |-> "send", key |-> k, ok |-> ok]
MarkEntry(k, ok) == [op |-> "mark", key |-> k, ok |-> ok]

\* a loop that does not look at the flag
SkipsSendNever(p) == FALSE

\* main.go:111  if *dryRun { continue }
SkipsSend(p) == dry[p]

\* the loop goes on with the next event
Continue(p) ==
  /\ idx' = [idx EXCEPT ![p] = @ + 1]
  /\ GoesTo(p, "loop")
  /\ UNCHANGED <<lockFile, data>>

\* a send whose error is dropped: the key is marked all the same
SendErrorDropped(p, ok) ==
  /\ sent' = [sent EXCEPT ![CurrentKey(p)] = IF ok THEN @ + 1 ELSE @]
  /\ log' = [log EXCEPT ![p] = Append(@, SendEntry(CurrentKey(p), ok))]
  /\ GoesTo(p, "mark")
  /\ UNCHANGED <<lockFile, data, idx>>

\* a send whose error only skips the event: the loop goes on
SendErrorSkipsEvent(p, ok) ==
  /\ sent' = [sent EXCEPT ![CurrentKey(p)] = IF ok THEN @ + 1 ELSE @]
  /\ log' = [log EXCEPT ![p] = Append(@, SendEntry(CurrentKey(p), ok))]
  /\ IF ok
     THEN /\ GoesTo(p, "mark")
          /\ UNCHANGED <<lockFile, data, idx>>
     ELSE Continue(p)

\* main.go:115-117  client.SendSimpleTextSMS(num, msg) was invoked for the
\* event and returned nil (ok) or an error
Send(p, ok) ==
  /\ sent' = [sent EXCEPT ![CurrentKey(p)] = IF ok THEN @ + 1 ELSE @]
  /\ log' = [log EXCEPT ![p] = Append(@, SendEntry(CurrentKey(p), ok))]
  /\ IF ok
     THEN /\ GoesTo(p, "mark")
          /\ UNCHANGED <<lockFile, data, idx>>
     ELSE ReturnsErr(p, "send")

\* main.go:91-117  one pass of the range loop up to the return of the send,
\* or the return after the last event
LoopStep(p) ==
  /\ pc[p] = "loop"
  /\ IF idx[p] > Len(calendar)
       THEN ReturnsNil(p) /\ UNCHANGED <<sent, log>>
     ELSE IF EventPhoneNumber(calendar[idx[p]]) = ""
       THEN Continue(p) /\ UNCHANGED <<sent, log>>
     ELSE IF Exists(data[p], CurrentKey(p))
       THEN Continue(p) /\ UNCHANGED <<sent, log>>
     ELSE \E tmplOk \in BOOLEAN, sendOk \in BOOLEAN :
            IF ~tmplOk THEN ReturnsErr(p, "template-exec") /\ UNCHANGED <<sent, log>>
            ELSE IF SkipsSend(p) THEN Continue(p) /\ UNCHANGED <<sent, log>>
            ELSE Send(p, sendOk)
  /\ cleanDone' = (cleanDone \/ (idx[p] > Len(calendar) /\ ~dry[p]))
  /\ UNCHANGED <<now, maxAge, storeFile, calendar, runs>>
  /\ UNCHANGED auxVars

\* a Mark that refuses a key it already holds
StoreMarkRefusesMarked(d, f, k, t, ioOk) ==
  IF Exists(d, k)
  THEN [data |-> d, file |-> f, err |-> TRUE]
  ELSE [data |-> MarkData(d, k, t),
        file |-> IF ioOk THEN SavedStore(MarkData(d, k, t)) ELSE f,
        err  |-> ~ioOk]

\* Store.Mark: the entry is set in memory, then saveLocked rewrites the
\* whole file, or fails and leaves the file as it was
StoreMark(d, f, k, t, ioOk) ==
  LET marked == MarkData(d, k, t)
  IN  [data |-> marked,
       file |-> IF ioOk THEN SavedStore(marked) ELSE f,
       err  |-> ~ioOk]

\* main.go:119-122  err = store.Mark(key)
Mark(p) ==
  /\ pc[p] = "mark"
  /\ \E ioOk \in BOOLEAN :
       LET m == StoreMark(data[p], storeFile, CurrentKey(p), now, ioOk)
       IN  /\ log' = [log EXCEPT ![p] = Append(@, MarkEntry(CurrentKey(p), ~m.err))]
           /\ storeFile' = m.file
           /\ IF ~m.err
              THEN /\ data' = [data EXCEPT ![p] = m.data]
                   /\ idx' = [idx EXCEPT ![p] = @ + 1]
                   /\ GoesTo(p, "loop")
                   /\ UNCHANGED lockFile
              ELSE ReturnsErr(p, "mark")
  /\ UNCHANGED <<now, maxAge, calendar, sent, runs, cleanDone>>
  /\ UNCHANGED auxVars

\* the process is killed (signal, power loss) wherever it stands: nothing it
\* deferred runs, and the shell reports 128+9
Kill(p) ==
  /\ pc[p] \notin {"idle", "exited"}
  /\ Ends(p, 137, "killed")
  /\ UNCHANGED <<now, maxAge, lockFile, storeFile, calendar, sent, log, runs, cleanDone>>
  /\ UNCHANGED auxVars

(* --------------------------- specification ----------------------------- *)
ProcNext(p) ==
  \/ Start(p)
  \/ TryCreateLock(p)
  \/ WriteLock(p)
  \/ ReadLock(p)
  \/ RemoveStale(p)
  \/ RetryCreateLock(p)
  \/ OpenStore(p)
  \/ Prepare(p)
  \/ LoopStep(p)
  \/ Mark(p)
  \/ Kill(p)

Next == (\E p \in Procs : ProcNext(p)) \/ Tick

Spec == Init /\ [][Next]_vars

\* one invocation at a time: the second slot never starts
NextSeq == ProcNext(1) \/ Tick

SpecSeq == Init /\ [][NextSeq]_vars

(* ------------------------ the event loop alone ------------------------- *)
\* what execute() hands to the loop: events in any order, an event of two
\* calendars twice
FetchedLists == UNION { [1..n -> {Event1, Event2, Event3}] : n \in 0..(MaxEvents + 1) }

\* the mappings the store file holds when a run starts
StoredAtStart == { EmptyData, MarkData(EmptyData, eventMessageKey(Event1, DefaultOffset), 0) }

\* a run that holds the lock, has opened its store and fetched its events;
\* arg keeps the mapping it loaded
InitLoop ==
  /\ now = 0
  /\ maxAge = OneMinute
  /\ lockFile = WrittenLock(CreatedLock(1), 1, 0)
  /\ \E d \in StoredAtStart :
       /\ storeFile = (IF d = EmptyData THEN NoStore ELSE SavedStore(d))
       /\ data = [p \in Procs |-> IF p = 1 THEN d ELSE EmptyData]
       /\ arg = <<d>>
  /\ calendar \in FetchedLists
  /\ sent = [k \in AllKeys |-> 0]
  /\ pc = [p \in Procs |-> IF p = 1 THEN "loop" ELSE "idle"]
  /\ acqNow = [p \in Procs |-> 0]
  /\ dry \in [Procs -> BOOLEAN]
  /\ dry[2] = FALSE
  /\ idx = [p \in Procs |-> IF p = 1 THEN 1 ELSE 0]
  /\ log = [p \in Procs |-> <<>>]
  /\ result = [p \in Procs |-> ""]
  /\ exitCode = [p \in Procs |-> 0]
  /\ runs = 1
  /\ cleanDone = FALSE
  /\ tmpFile = NoStore
  /\ ret = <<>>
  /\ server = <<>>
  /\ filter = <<>>
  /\ net = <<>>
  /\ ci = 0
  /\ fetched = <<>>

\* main.go:91-125  the loop of one run, event by event
NextLoop == LoopStep(1) \/ Mark(1)

SpecLoop == InitLoop /\ [][NextLoop]_vars

(* --------------------------- the lock alone ---------------------------- *)
\* AcquireLock(path, maxAge) is called: now := time.Now().UTC()
CallAcquireLock(p) ==
  /\ pc[p] \in {"idle", "exited"}
  /\ runs < MaxCalls
  /\ runs' = runs + 1
  /\ pc' = [pc EXCEPT ![p] = "acq_create"]
  /\ result' = [result EXCEPT ![p] = ""]
  /\ exitCode' = [exitCode EXCEPT ![p] = 0]
  /\ acqNow' = [acqNow EXCEPT ![p] = now]
  /\ UNCHANGED <<now, maxAge, lockFile, storeFile, calendar, sent, dry, data,
                 idx, log, cleanDone>>
  /\ UNCHANGED auxVars

\* the holder calls Lock.Release
CallRelease(p) ==
  /\ pc[p] = "open"
  /\ Release
  /\ Ends(p, ExitQuiet, "released")
  /\ UNCHANGED <<now, maxAge, storeFile, calendar, sent, log, runs, cleanDone>>
  /\ UNCHANGED auxVars

\* the clock advances by one tick
TickOne ==
  /\ now < MaxNow
  /\ now' = now + 1
  /\ UNCHANGED <<maxAge, lockFile, storeFile, calendar, sent, pc, acqNow, dry,
                 data, idx, log, result, exitCode, runs, cleanDone>>
  /\ UNCHANGED auxVars

\* a process stands inside AcquireLock
InAcquire(p) ==
  pc[p] \in {"acq_create", "acq_write", "acq_read", "acq_remove", "acq_retry"}

AcquireStep(p) ==
  \/ TryCreateLock(p)
  \/ WriteLock(p)
  \/ ReadLock(p)
  \/ RemoveStale(p)
  \/ RetryCreateLock(p)

InitLock ==
  /\ now = 0
  /\ maxAge \in 1..MaxD
  /\ lockFile = NoLock
  /\ storeFile = NoStore
  /\ calendar = <<>>
  /\ sent = [k \in AllKeys |-> 0]
  /\ ProcInit
  /\ AuxInit

\* callers of AcquireLock and Release on one path, interleaved at every
\* file operation, any of them killed at any point
NextLock ==
  \/ \E p \in Procs : CallAcquireLock(p) \/ AcquireStep(p) \/ CallRelease(p) \/ Kill(p)
  \/ TickOne

SpecLock == InitLock /\ [][NextLock]_vars

\* the same callers, one call of AcquireLock at a time
NextLockSeq ==
  \/ \E p \in Procs :
       /\ \A q \in Procs \ {p} : ~InAcquire(q)
       /\ CallAcquireLock(p) \/ AcquireStep(p) \/ CallRelease(p)
  \/ TickOne

SpecLockSeq == InitLock /\ [][NextLockSeq]_vars

(* ------------------------ the lock after a crash ----------------------- *)
\* the caller of AcquireLock is killed, inside the call or holding the
\* lock; arg records the instant
Crash(p) ==
  /\ pc[p] \notin {"idle", "exited"}
  /\ arg = <<>>
  /\ arg' = <<now>>
  /\ Ends(p, 137, "killed")
  /\ UNCHANGED <<now, maxAge, lockFile, storeFile, calendar, sent, log, runs, cleanDone>>
  /\ UNCHANGED <<saveVars, ret, fetchVars>>

\* a later run calls AcquireLock, maxAge or more after the crash
CallAcquireLockLater(p) ==
  /\ arg # <<>>
  /\ now - arg[1] >= maxAge
  /\ CallAcquireLock(p)

\* one caller that is killed at any step, then callers of a later run
NextRecover ==
  \/ arg = <<>> /\ runs = 0 /\ CallAcquireLock(1)
  \/ AcquireStep(1)
  \/ Crash(1)
  \/ CallAcquireLockLater(2)
  \/ AcquireStep(2)
  \/ CallRelease(2)
  \/ TickOne

SpecRecover == InitLock /\ [][NextRecover]_vars

(* --------------------------- the store alone --------------------------- *)
\* Store.Delete: the entry is removed from memory, then saveLocked
StoreDelete(d, f, k, ioOk) ==
  LET left == DeleteData(d, k)
  IN  [data |-> left,
       file |-> IF ioOk THEN SavedStore(left) ELSE f,
       err  |-> ~ioOk]

\* what a caller of the Store saw: the call, whether the file system took
\* the write, and the error returned
CallEntry(op, k, io, err) == [op |-> op, key |-> k, io |-> io, err |-> err]

\* idempotency.Open(path): a Store with the mapping of the file
CallOpen(p) ==
  /\ runs < MaxOps
  /\ runs' = runs + 1
  /\ data' = [data EXCEPT ![p] = load(storeFile)]
  /\ log' = [log EXCEPT ![p] = <<CallEntry("Open", <<>>, TRUE, loadFails(storeFile))>>]
  /\ UNCHANGED <<now, maxAge, lockFile, storeFile, calendar, sent, pc, acqNow,
                 dry, idx, result, exitCode, cleanDone>>
  /\ UNCHANGED auxVars

\* s.Mark(k)
CallMark(p, k) ==
  /\ runs < MaxOps
  /\ runs' = runs + 1
  /\ \E ioOk \in BOOLEAN :
       LET m == StoreMark(data[p], storeFile, k, now, ioOk)
       IN  /\ data' = [data EXCEPT ![p] = m.data]
           /\ storeFile' = m.file
           /\ log' = [log EXCEPT ![p] = <<CallEntry("Mark", k, ioOk, m.err)>>]
  /\ UNCHANGED <<now, maxAge, lockFile, calendar, sent, pc, acqNow, dry, idx,
                 result, exitCode, cleanDone>>
  /\ UNCHANGED auxVars

\* s.Delete(k)
CallDelete(p, k) ==
  /\ runs < MaxOps
  /\ runs' = runs + 1
  /\ \E ioOk \in BOOLEAN :
       LET m == StoreDelete(data[p], storeFile, k, ioOk)
       IN  /\ data' = [data EXCEPT ![p] = m.data]
           /\ storeFile' = m.file
           /\ log' = [log EXCEPT ![p] = <<CallEntry("Delete", k, ioOk, m.err)>>]
  /\ UNCHANGED <<now, maxAge, lockFile, calendar, sent, pc, acqNow, dry, idx,
                 result, exitCode, cleanDone>>
  /\ UNCHANGED auxVars

InitStore ==
  /\ now = 0
  /\ maxAge = OneMinute
  /\ lockFile = NoLock
  /\ storeFile = NoStore
  /\ calendar = <<>>
  /\ sent = [k \in AllKeys |-> 0]
  /\ ProcInit
  /\ AuxInit

\* one Store of one process, its calls in any order
NextStore ==
  \/ CallOpen(1)
  \/ \E k \in AllKeys : CallMark(1, k) \/ CallDelete(1, k)
  \/ TickOne

SpecStore == InitStore /\ [][NextStore]_vars

(* ---------------------- saveLocked, step by step ----------------------- *)
\* the call returns to its caller, the Store still open
SaveReturns(p, err) ==
  /\ pc' = [pc EXCEPT ![p] = "idle"]
  /\ log' = [log EXCEPT ![p] = <<[@[1] EXCEPT !.io = ~err, !.err = err]>>]

\* s.Mark(k) up to the call of saveLocked: s.data[key] = time.Now().UTC()
BeginMark(p, k) ==
  /\ pc[p] = "idle"
  /\ runs < MaxSaves
  /\ runs' = runs + 1
  /\ data' = [data EXCEPT ![p] = MarkData(@, k, now)]
  /\ pc' = [pc EXCEPT ![p] = "save_mkdir"]
  /\ log' = [log EXCEPT ![p] = <<CallEntry("Mark", k, TRUE, FALSE)>>]
  /\ UNCHANGED <<now, maxAge, lockFile, storeFile, calendar, sent, acqNow, dry,
                 idx, result, exitCode, cleanDone, tmpFile>>
  /\ UNCHANGED <<pureVars, fetchVars>>

\* s.Delete(k) up to the call of saveLocked: delete(s.data, key)
BeginDelete(p, k) ==
  /\ pc[p] = "idle"
  /\ runs < MaxSaves
  /\ runs' = runs + 1
  /\ data' = [data EXCEPT ![p] = DeleteData(@, k)]
  /\ pc' = [pc EXCEPT ![p] = "save_mkdir"]
  /\ log' = [log EXCEPT ![p] = <<CallEntry("Delete", k, TRUE, FALSE)>>]
  /\ UNCHANGED <<now, maxAge, lockFile, storeFile, calendar, sent, acqNow, dry,
                 idx, result, exitCode, cleanDone, tmpFile>>
  /\ UNCHANGED <<pureVars, fetchVars>>

\* store.go:97-106  os.MkdirAll and json.MarshalIndent: no file is touched
SaveMkdir(p) ==
  /\ pc[p] = "save_mkdir"
  /\ \E ioOk \in BOOLEAN :
       IF ioOk
       THEN pc' = [pc EXCEPT ![p] = "save_create"] /\ UNCHANGED log
       ELSE SaveReturns(p, TRUE)
  /\ UNCHANGED <<now, maxAge, lockFile, storeFile, calendar, sent, acqNow, dry,
                 data, idx, result, exitCode, runs, cleanDone, tmpFile>>
  /\ UNCHANGED <<pureVars, fetchVars>>

\* store.go:108  os.WriteFile opens tmp with O_WRONLY|O_CREATE|O_TRUNC
SaveCreateTmp(p) ==
  /\ pc[p] = "save_create"
  /\ \E ioOk \in BOOLEAN :
       IF ioOk
       THEN /\ tmpFile' = [exists |-> TRUE, text |-> EmptyText]
            /\ pc' = [pc EXCEPT ![p] = "save_write"]
            /\ UNCHANGED log
       ELSE UNCHANGED tmpFile /\ SaveReturns(p, TRUE)
  /\ UNCHANGED <<now, maxAge, lockFile, storeFile, calendar, sent, acqNow, dry,
                 data, idx, result, exitCode, runs, cleanDone>>
  /\ UNCHANGED <<pureVars, fetchVars>>

\* store.go:108  os.WriteFile writes the text: a part of it has reached tmp
SaveWritePart(p) ==
  /\ pc[p] = "save_write"
  /\ tmpFile.text = EmptyText
  /\ \E part \in Partial(Marshal(data[p])) \ {EmptyText} :
       tmpFile' = [exists |-> TRUE, text |-> part]
  /\ UNCHANGED <<now, maxAge, lockFile, storeFile, calendar, sent, pc, acqNow,
                 dry, data, idx, log, result, exitCode, runs, cleanDone>>
  /\ UNCHANGED <<pureVars, fetchVars>>

\* store.go:108-110  os.WriteFile ends: the whole text is in tmp, or the
\* write failed where it stood and saveLocked returns the error
SaveWriteTmp(p) ==
  /\ pc[p] = "save_write"
  /\ \E ioOk \in BOOLEAN :
       IF ioOk
       THEN /\ tmpFile' = [exists |-> TRUE, text |-> Marshal(data[p])]
            /\ pc' = [pc EXCEPT ![p] = "save_rename"]
            /\ UNCHANGED log
       ELSE UNCHANGED tmpFile /\ SaveReturns(p, TRUE)
  /\ UNCHANGED <<now, maxAge, lockFile, storeFile, calendar, sent, acqNow, dry,
                 data, idx, result, exitCode, runs, cleanDone>>
  /\ UNCHANGED <<pureVars, fetchVars>>

\* a save that writes the text straight to the store path: the path holds
\* what tmp held at every moment of the write
SaveInPlace(p) ==
  /\ pc[p] = "save_rename"
  /\ \E part \in Partial(tmpFile.text) \cup {tmpFile.text} :
       storeFile' = [exists |-> TRUE, text |-> part]
  /\ tmpFile' = NoStore
  /\ SaveReturns(p, FALSE)
  /\ UNCHANGED <<now, maxAge, lockFile, calendar, sent, acqNow, dry, data, idx,
                 result, exitCode, runs, cleanDone>>
  /\ UNCHANGED <<pureVars, fetchVars>>

\* store.go:112  os.Rename(tmp, s.path): the path names the file that was
\* tmp, in one step
SaveRename(p) ==
  /\ pc[p] = "save_rename"
  /\ \E ioOk \in BOOLEAN :
       IF ioOk
       THEN /\ storeFile' = tmpFile
            /\ tmpFile' = NoStore
            /\ SaveReturns(p, FALSE)
       ELSE UNCHANGED <<storeFile, tmpFile>> /\ SaveReturns(p, TRUE)
  /\ UNCHANGED <<now, maxAge, lockFile, calendar, sent, acqNow, dry, data, idx,
                 result, exitCode, runs, cleanDone>>
  /\ UNCHANGED <<pureVars, fetchVars>>

\* a new process calls idempotency.Open(path) after the last one was killed
OpenAfterKill(p) ==
  /\ pc[p] = "exited"
  /\ log' = [log EXCEPT ![p] = <<CallEntry("Open", <<>>, TRUE, loadFails(storeFile))>>]
  /\ IF loadFails(storeFile)
     THEN UNCHANGED <<pc, data>>
     ELSE /\ pc' = [pc EXCEPT ![p] = "idle"]
          /\ data' = [data EXCEPT ![p] = load(storeFile)]
  /\ UNCHANGED <<now, maxAge, lockFile, storeFile, calendar, sent, acqNow, dry,
                 idx, result, exitCode, runs, cleanDone, tmpFile>>
  /\ UNCHANGED <<pureVars, fetchVars>>

\* one process at a time mutates the Store; it can be killed at every step
NextSave ==
  \/ \E k \in AllKeys : BeginMark(1, k) \/ BeginDelete(1, k)
  \/ SaveMkdir(1)
  \/ SaveCreateTmp(1)
  \/ SaveWritePart(1)
  \/ SaveWriteTmp(1)
  \/ SaveRename(1)
  \/ Kill(1)
  \/ OpenAfterKill(1)
  \/ TickOne

SpecSave == InitStore /\ [][NextSave]_vars

(* -------------------- calendar names and calendar data ------------------ *)
\* text is a sequence of characters; the letters come in two cases
Fold(c) ==
  CASE c = "A" -> "a" [] c = "B" -> "b" [] c = "H" -> "h" [] c = "P" -> "p"
    [] c = "S" -> "s" [] c = "T" -> "t" [] OTHER -> c

\* a comparison that also takes a name for equal to every longer name that
\* starts with it
HasPrefixFold(s, t) ==
  /\ Len(t) <= Len(s)
  /\ \A i \in 1..Len(t) : Fold(s[i]) = Fold(t[i])

\* strings.EqualFold(s, t)
EqualFold(s, t) ==
  /\ Len(s) = Len(t)
  /\ \A i \in 1..Len(s) : Fold(s[i]) = Fold(t[i])

\* strings.TrimSpace(s)
RECURSIVE TrimSpace(_)
TrimSpace(s) ==
  IF s = <<>> THEN s
  ELSE IF Head(s) = " " THEN TrimSpace(Tail(s))
  ELSE IF s[Len(s)] = " " THEN TrimSpace(SubSeq(s, 1, Len(s) - 1))
  ELSE s

\* strings.Split(s, ","): the parts between the commas, empty ones included
RECURSIVE Split(_, _)
Split(s, part) ==
  IF s = <<>> THEN <<part>>
  ELSE IF Head(s) = "," THEN <<part>> \o Split(Tail(s), <<>>)
  ELSE Split(Tail(s), Append(part, Head(s)))

\* the trimmed parts that are not empty, in order
RECURSIVE NonEmptyTrimmed(_)
NonEmptyTrimmed(parts) ==
  IF parts = <<>> THEN <<>>
  ELSE IF TrimSpace(Head(parts)) = <<>> THEN NonEmptyTrimmed(Tail(parts))
  ELSE <<TrimSpace(Head(parts))>> \o NonEmptyTrimmed(Tail(parts))

\* parseCalendarNames(s)
parseCalendarNames(s) == NonEmptyTrimmed(Split(s, <<>>))

\* values of the -calendars flag
FlagTexts ==
  { <<>>,
    <<"A", "b">>,
    <<"a", ",", " ", "b", "a">>,
    <<" ", ",", " ">> }

\* display names of the calendars on the server, as propfindCalendars trims
\* them
CalendarNames == { <<"a", "b">>, <<"a">>, <<"B", "A">> }

\* a VEVENT of the calendar data: the event it stands for, and whether its
\* DTSTART and DTEND parse ("ok"), its DTSTART is missing ("none") or one of
\* them matches none of the patterns of parseICalDateTime ("bad")
VEvent(e, dt) == [ev |-> e, dt |-> dt]

\* eventsFromCalendar(c): the events of the VEVENTs of one calendar object;
\* a VEVENT without DTSTART is passed over, the first one that does not
\* parse makes the call return its error and nothing else
eventsFromCalendar(obj) ==
  IF \E i \in 1..Len(obj) : obj[i].dt = "bad"
  THEN [err |-> TRUE, evs |-> <<>>]
  ELSE LET kept == SelectSeq(obj, LAMBDA it : it.dt = "ok")
       IN  [err |-> FALSE, evs |-> [i \in 1..Len(kept) |-> kept[i].ev]]

\* main.go:213-229  the calendar objects of one blob are decoded in turn and
\* their events appended, up to the first object whose extraction fails
RECURSIVE DecodeBlob(_, _)
DecodeBlob(blob, i) ==
  IF i > Len(blob) THEN <<>>
  ELSE IF eventsFromCalendar(blob[i]).err THEN <<>>
  ELSE eventsFromCalendar(blob[i]).evs \o DecodeBlob(blob, i + 1)

\* main.go:211-230  the range loop over the blobs of one calendar
RECURSIVE ExtractBlobs(_, _)
ExtractBlobs(blobs, j) ==
  IF j > Len(blobs) THEN <<>>
  ELSE DecodeBlob(blobs[j], 1) \o ExtractBlobs(blobs, j + 1)

\* blobs of one calendar object each
BlobE1 == << <<VEvent(Event1, "ok")>> >>
BlobE3 == << <<VEvent(Event2, "none"), VEvent(Event3, "ok")>> >>
BlobBad == << <<VEvent(Event1, "ok"), VEvent(Event2, "bad")>> >>
\* a blob of two calendar objects, the second with a VEVENT that does not parse
BlobBadTail == << <<VEvent(Event1, "ok")>>, <<VEvent(Event3, "bad")>> >>

(* ------------------ run(): configuration and execute() ------------------ *)
\* calendars a server holds in one behaviour
MaxCalendars == 2

\* what a REPORT for a calendar can deliver
ServedBlobs == { <<>>, <<BlobE1>>, <<BlobBad, BlobE3>> }

\* the calendar collections propfindCalendars lists, in the server's order
Servers ==
  UNION { [1..n -> [name : CalendarNames, blobs : ServedBlobs]] : n \in 0..MaxCalendars }

\* a request doDAV issued: its kind, the calendar it is for (0: none), and
\* whether the caller got an answer it could use
Request(req, cal, ok) == [req |-> req, cal |-> cal, ok |-> ok]

\* the run has the lock and the open store, and stands before line 64
InitFetch ==
  /\ now = 0
  /\ maxAge = OneMinute
  /\ lockFile = WrittenLock(CreatedLock(1), 1, 0)
  /\ storeFile = NoStore
  /\ calendar = <<>>
  /\ sent = [k \in AllKeys |-> 0]
  /\ pc = [p \in Procs |-> IF p = 1 THEN "config" ELSE "idle"]
  /\ acqNow = [p \in Procs |-> 0]
  /\ dry \in [Procs -> BOOLEAN]
  /\ dry[2] = FALSE
  /\ data = [p \in Procs |-> EmptyData]
  /\ idx = [p \in Procs |-> 0]
  /\ log = [p \in Procs |-> <<>>]
  /\ result = [p \in Procs |-> ""]
  /\ exitCode = [p \in Procs |-> 0]
  /\ runs = 1
  /\ cleanDone = FALSE
  /\ tmpFile = NoStore
  /\ arg = <<>>
  /\ ret = <<>>
  /\ server \in Servers
  /\ \E text \in FlagTexts : filter = parseCalendarNames(text)
  /\ net = <<>>
  /\ ci = 0
  /\ fetched = <<>>

\* main.go:64-67  cal.ParseCaldavURL(*caldav)
ParseURL(p) ==
  /\ pc[p] = "config"
  /\ \E ok \in BOOLEAN :
       IF ok
       THEN GoesTo(p, "timezone") /\ UNCHANGED <<lockFile, data, idx>>
       ELSE ReturnsErr(p, "caldav-url")
  /\ UNCHANGED <<now, maxAge, storeFile, calendar, sent, log, runs, cleanDone>>
  /\ UNCHANGED auxVars

\* a run that asks the server for the principal before it loads the Location
LoadTZAfterRequest(p) ==
  /\ pc[p] = "timezone"
  /\ net' = Append(net, Request("principal", 0, TRUE))
  /\ \E ok \in BOOLEAN :
       IF ok
       THEN GoesTo(p, "fetch_home") /\ UNCHANGED <<lockFile, data, idx>>
       ELSE FatalInRun(p, "timezone")
  /\ UNCHANGED <<now, maxAge, storeFile, calendar, sent, log, runs, cleanDone>>
  /\ UNCHANGED <<saveVars, pureVars, server, filter, ci, fetched>>

\* main.go:69-75  aspsms.NewClient (no request), time.LoadLocation(*timezone)
LoadTZ(p) ==
  /\ pc[p] = "timezone"
  /\ \E ok \in BOOLEAN :
       IF ok
       THEN GoesTo(p, "fetch_principal") /\ UNCHANGED <<lockFile, data, idx>>
       ELSE FatalInRun(p, "timezone")
  /\ UNCHANGED <<now, maxAge, storeFile, calendar, sent, log, runs, cleanDone>>
  /\ UNCHANGED auxVars

\* a discovery that goes on to the next request whatever the answer was
DiscoverAnyway(p, req, next) ==
  /\ \E ok \in BOOLEAN : net' = Append(net, Request(req, 0, ok))
  /\ GoesTo(p, next)
  /\ UNCHANGED <<lockFile, data, idx>>
  /\ UNCHANGED <<now, maxAge, storeFile, calendar, sent, log, runs, cleanDone>>
  /\ UNCHANGED <<saveVars, pureVars, server, filter, fetched>>

\* a step of execute() that issues one request of the discovery: with an
\* answer it goes on to next, without one execute() returns the error
Discover(p, req, next) ==
  /\ \E ok \in BOOLEAN :
       /\ net' = Append(net, Request(req, 0, ok))
       /\ IF ok
          THEN GoesTo(p, next) /\ UNCHANGED <<lockFile, data, idx>>
          ELSE ReturnsErr(p, "fetch")
  /\ UNCHANGED <<now, maxAge, storeFile, calendar, sent, log, runs, cleanDone>>
  /\ UNCHANGED <<saveVars, pureVars, server, filter, fetched>>

\* main.go:159-168  url.Parse(endpoint), propfindCurrentUserPrincipal
FetchPrincipal(p) ==
  /\ pc[p] = "fetch_principal"
  /\ Discover(p, "principal", "fetch_home")
  /\ UNCHANGED ci

\* main.go:171-175  propfindCalendarHomeSet
FetchHome(p) ==
  /\ pc[p] = "fetch_home"
  /\ Discover(p, "home", "fetch_list")
  /\ UNCHANGED ci

\* main.go:178-187  propfindCalendars: the range loop starts at the first
FetchList(p) ==
  /\ pc[p] = "fetch_list"
  /\ Discover(p, "list", "fetch_cal")
  /\ ci' = 1

\* main.go:189-201  the calendar passes the filter of -calendars
MatchesFilter(name, names) ==
  \/ Len(names) = 0
  \/ \E i \in 1..Len(names) : EqualFold(name, names[i])

\* a loop over the calendars that returns the error of a failed REPORT
FetchCalendarAborts(p) ==
  /\ pc[p] = "fetch_cal"
  /\ ci <= Len(server)
  /\ ci' = ci + 1
  /\ IF ~MatchesFilter(server[ci].name, filter)
     THEN /\ UNCHANGED <<net, fetched>>
          /\ UNCHANGED <<lockFile, pc, acqNow, dry, data, idx, result, exitCode>>
     ELSE \E ok \in BOOLEAN :
            /\ net' = Append(net, Request("report", ci, ok))
            /\ IF ok
               THEN /\ fetched' = fetched \o ExtractBlobs(server[ci].blobs, 1)
                    /\ UNCHANGED <<lockFile, pc, acqNow, dry, data, idx, result, exitCode>>
               ELSE UNCHANGED fetched /\ ReturnsErr(p, "fetch")
  /\ UNCHANGED <<now, maxAge, storeFile, calendar, sent, log, runs, cleanDone>>
  /\ UNCHANGED <<saveVars, pureVars, server, filter>>

\* main.go:188-231  one pass of the range loop over the calendars: the
\* filter, reportCalendarQuery, and the extraction from the blobs
FetchCalendar(p) ==
  /\ pc[p] = "fetch_cal"
  /\ ci <= Len(server)
  /\ IF ~MatchesFilter(server[ci].name, filter)
     THEN UNCHANGED <<net, fetched>>
     ELSE \E ok \in BOOLEAN :
            /\ net' = Append(net, Request("report", ci, ok))
            /\ fetched' = IF ok
                          THEN fetched \o ExtractBlobs(server[ci].blobs, 1)
                          ELSE fetched
  /\ ci' = ci + 1
  /\ UNCHANGED <<now, maxAge, lockFile, storeFile, calendar, sent, pc, acqNow,
                 dry, data, idx, log, result, exitCode, runs, cleanDone>>
  /\ UNCHANGED <<saveVars, pureVars, server, filter>>

\* main.go:233, 86-91  execute() returns the events and run() starts its loop
FetchDone(p) ==
  /\ pc[p] = "fetch_cal"
  /\ ci > Len(server)
  /\ calendar' = fetched
  /\ idx' = [idx EXCEPT ![p] = 1]
  /\ GoesTo(p, "loop")
  /\ UNCHANGED <<now, maxAge, lockFile, storeFile, sent, data, log, runs, cleanDone>>
  /\ UNCHANGED auxVars

\* one run from the configuration to its end, the fetch request by request
NextFetch ==
  \/ ParseURL(1)
  \/ LoadTZ(1)
  \/ FetchPrincipal(1)
  \/ FetchHome(1)
  \/ FetchList(1)
  \/ FetchCalendar(1)
  \/ FetchDone(1)
  \/ LoopStep(1)
  \/ Mark(1)

SpecFetch == InitFetch /\ [][NextFetch]_vars

(* --------------------- the extraction from the blobs -------------------- *)
\* blobs in the answer to one REPORT when the extraction is applied alone
MaxBlobs == 3

\* the blobs an answer is made of
BlobKinds == {BlobE1, BlobE3, BlobBad, BlobBadTail}

\* the answers to one REPORT: reportCalendarQuery's icsBlobs
Answers == UNION { [1..n -> BlobKinds] : n \in 0..MaxBlobs }

InitBlobs ==
  /\ now = 0
  /\ maxAge = OneMinute
  /\ lockFile = NoLock
  /\ storeFile = NoStore
  /\ calendar = <<>>
  /\ sent = [k \in AllKeys |-> 0]
  /\ ProcInit
  /\ tmpFile = NoStore
  /\ arg \in Answers
  /\ ret = <<>>
  /\ server = <<>>
  /\ filter = <<>>
  /\ net = <<>>
  /\ ci = 0
  /\ fetched = <<>>

\* main.go:211-230  the events execute() appends for the blobs of one answer
ExtractAnswer ==
  /\ ret = <<>>
  /\ ret' = <<ExtractBlobs(arg, 1)>>
  /\ UNCHANGED <<now, maxAge, lockFile, storeFile, calendar, sent, pc, acqNow,
                 dry, data, idx, log, result, exitCode, runs, cleanDone>>
  /\ UNCHANGED <<saveVars, arg, fetchVars>>

NextBlobs == ExtractAnswer

SpecBlobs == InitBlobs /\ [][NextBlobs]_vars

(* --------------------------- ParseCaldavURL ----------------------------- *)
\* positions count from 1, and 0 stands for "not found", where Go counts
\* from 0 and returns -1

\* strings.IndexAny(s, chars), and strings.Index(s, c) for a chars of one
IndexAny(s, chars) ==
  IF \E i \in 1..Len(s) : s[i] \in chars
  THEN CHOOSE i \in 1..Len(s) :
         s[i] \in chars /\ \A j \in 1..(i - 1) : s[j] \notin chars
  ELSE 0

\* a split of the authority at its first '@'
LastIndexAsFirst(s, c) == IndexAny(s, {c})

\* strings.LastIndex(s, c)
LastIndex(s, c) ==
  IF \E i \in 1..Len(s) : s[i] = c
  THEN CHOOSE i \in 1..Len(s) : s[i] = c /\ \A j \in (i + 1)..Len(s) : s[j] # c
  ELSE 0

\* strings.Index(s, "://")
IndexSchemeSep(s) ==
  LET at(i) == i + 2 <= Len(s) /\ SubSeq(s, i, i + 2) = <<":", "/", "/">>
  IN  IF \E i \in 1..Len(s) : at(i)
      THEN CHOOSE i \in 1..Len(s) : at(i) /\ \A j \in 1..(i - 1) : ~at(j)
      ELSE 0

\* strings.ToLower(s)
ToLower(s) == [i \in 1..Len(s) |-> Fold(s[i])]

HexDigits == {"0", "2", "4", "B"}
HexVal(c) == CASE c = "0" -> 0 [] c = "2" -> 2 [] c = "4" -> 4 [] c = "B" -> 11

\* the character of a byte; "?" stands for the bytes without a name here
Chr(n) ==
  CASE n = 32 -> " " [] n = 36 -> "$" [] n = 43 -> "+" [] n = 64 -> "@"
    [] n = 66 -> "B" [] OTHER -> "?"

\* url.QueryUnescape(s): %XX becomes its byte, '+' a space; a '%' that two
\* hex digits do not follow is an error, which quotes up to three characters
\* from that '%' on
RECURSIVE QueryUnescape(_)
QueryUnescape(s) ==
  IF s = <<>> THEN [ok |-> TRUE, s |-> <<>>, bad |-> <<>>]
  ELSE IF Head(s) = "%"
  THEN IF Len(s) >= 3 /\ s[2] \in HexDigits /\ s[3] \in HexDigits
       THEN LET r == QueryUnescape(SubSeq(s, 4, Len(s)))
            IN  [ok |-> r.ok,
                 s  |-> IF r.ok THEN <<Chr(16 * HexVal(s[2]) + HexVal(s[3]))>> \o r.s
                        ELSE <<>>,
                 bad |-> r.bad]
       ELSE [ok |-> FALSE, s |-> <<>>,
             bad |-> SubSeq(s, 1, IF Len(s) > 3 THEN 3 ELSE Len(s))]
  ELSE LET r == QueryUnescape(Tail(s))
       IN  [ok |-> r.ok,
            s  |-> IF r.ok THEN <<IF Head(s) = "+" THEN " " ELSE Head(s)>> \o r.s
                   ELSE <<>>,
            bad |-> r.bad]

Digits == {"0", "2", "4", "8"}

\* url.Parse of scheme://authority/path...: the fragment and the query are
\* cut off, the authority ends at the first '/', its host is what follows
\* its last '@', and a port must be digits
urlParse(s) ==
  LET f == IndexAny(s, {"#"})
      s1 == IF f = 0 THEN s ELSE SubSeq(s, 1, f - 1)
      q == IndexAny(s1, {"?"})
      s2 == IF q = 0 THEN s1 ELSE SubSeq(s1, 1, q - 1)
      i == IndexSchemeSep(s2)
      rest == SubSeq(s2, i + 3, Len(s2))
      j == IndexAny(rest, {"/"})
      authority == IF j = 0 THEN rest ELSE SubSeq(rest, 1, j - 1)
      path == IF j = 0 THEN <<>> ELSE SubSeq(rest, j, Len(rest))
      a == LastIndex(authority, "@")
      host == SubSeq(authority, a + 1, Len(authority))
      c == LastIndex(host, ":")
      port == IF c = 0 THEN <<>> ELSE SubSeq(host, c + 1, Len(host))
  IN  [ok |-> /\ i > 1
              /\ \A n \in 1..Len(port) : port[n] \in Digits
              /\ \A n \in 1..Len(host) : host[n] \notin {" ", "%", "@"},
       Scheme |-> SubSeq(s2, 1, i - 1),
       User |-> IF a = 0 THEN <<>> ELSE SubSeq(authority, 1, a - 1),
       Host |-> host,
       Path |-> path,
       RawQuery |-> IF q = 0 THEN <<>> ELSE SubSeq(s1, q + 1, Len(s1)),
       Fragment |-> IF f = 0 THEN <<>> ELSE SubSeq(s, f + 1, Len(s))]

\* (*url.URL).String()
URLString(u) ==
  u.Scheme \o <<":", "/", "/">>
    \o (IF u.User = <<>> THEN <<>> ELSE u.User \o <<"@">>)
    \o u.Host \o u.Path
    \o (IF u.RawQuery = <<>> THEN <<>> ELSE <<"?">> \o u.RawQuery)
    \o (IF u.Fragment = <<>> THEN <<>> ELSE <<"#">> \o u.Fragment)

\* the error ParseCaldavURL returns: its kind, and the text it quotes
UrlError(kind, quoted) ==
  [ok |-> FALSE, err |-> kind, quoted |-> quoted,
   BaseURL |-> urlParse(<<>>), AppleID |-> <<>>, Password |-> <<>>, HasPass |-> FALSE]

\* cal.ParseCaldavURL(raw)
ParseCaldavURL(raw) ==
  LET i == IndexSchemeSep(raw)
      scheme == ToLower(SubSeq(raw, 1, i - 1))
      rest == SubSeq(raw, i + 3, Len(raw))
      j == IndexAny(rest, {"/", "?", "#"})
      authority == IF j = 0 THEN rest ELSE SubSeq(rest, 1, j - 1)
      remainder == IF j = 0 THEN <<>> ELSE SubSeq(rest, j, Len(rest))
      at == LastIndex(authority, "@")
      userinfoRaw == SubSeq(authority, 1, at - 1)
      hostport == SubSeq(authority, at + 1, Len(authority))
      c == IndexAny(userinfoRaw, {":"})
      hasPass == c > 0
      userRaw == IF hasPass THEN SubSeq(userinfoRaw, 1, c - 1) ELSE userinfoRaw
      passRaw == IF hasPass THEN SubSeq(userinfoRaw, c + 1, Len(userinfoRaw)) ELSE <<>>
      user == QueryUnescape(userRaw)
      pass == QueryUnescape(passRaw)
      sanitized == scheme \o <<":", "/", "/">> \o hostport \o remainder
      u == urlParse(sanitized)
  IN  IF raw = <<>> THEN UrlError("empty url", <<>>)
      ELSE IF i <= 1 THEN UrlError("missing scheme", raw)
      ELSE IF scheme \notin {<<"h", "t", "t", "p">>, <<"h", "t", "t", "p", "s">>}
        THEN UrlError("unsupported scheme", scheme)
      ELSE IF authority = <<>> THEN UrlError("missing authority", raw)
      ELSE IF at = 0 THEN UrlError("missing credentials", raw)
      ELSE IF hostport = <<>> THEN UrlError("missing host", raw)
      ELSE IF userinfoRaw = <<>> THEN UrlError("missing userinfo", raw)
      ELSE IF userRaw = <<>> THEN UrlError("missing apple-id", raw)
      ELSE IF ~user.ok THEN UrlError("invalid percent-encoding in apple-id", user.bad)
      ELSE IF ~pass.ok THEN UrlError("invalid percent-encoding in password", pass.bad)
      ELSE IF ~u.ok THEN UrlError("invalid url", sanitized)
      ELSE [ok |-> TRUE, err |-> "", quoted |-> <<>>,
            BaseURL |-> [u EXCEPT !.User = <<>>],
            AppleID |-> user.s, Password |-> pass.s, HasPass |-> hasPass]

\* longest token of a connection string
MaxTok == 2

\* the texts of 1..MaxTok characters over an alphabet
Tokens(alphabet) == UNION { [1..n -> alphabet] : n \in 1..MaxTok }

Schemes == { <<"h", "t", "t", "p">>, <<"h", "t", "t", "p", "s">>, <<"H", "T", "T", "P", "S">> }
Hosts == { <<"h">>, <<"h", ":", "8">> }

\* the connection strings scheme://a@b:p@host/x, with their parts
ConnectionStrings ==
  { [raw |-> s \o <<":", "/", "/">> \o a \o <<"@">> \o b \o <<":">> \o p
             \o <<"@">> \o h \o <<"/">> \o x,
     a |-> a, b |-> b, p |-> p, host |-> h, x |-> x] :
      s \in Schemes, a \in Tokens({"a"}), b \in Tokens({"b"}),
      p \in Tokens({"p", "@", ":"}), h \in Hosts, x \in Tokens({"x", "@"}) }

InitURL ==
  /\ now = 0
  /\ maxAge = OneMinute
  /\ lockFile = NoLock
  /\ storeFile = NoStore
  /\ calendar = <<>>
  /\ sent = [k \in AllKeys |-> 0]
  /\ ProcInit
  /\ tmpFile = NoStore
  /\ arg \in ConnectionStrings
  /\ ret = <<>>
  /\ server = <<>>
  /\ filter = <<>>
  /\ net = <<>>
  /\ ci = 0
  /\ fetched = <<>>

\* main.go:64  calURL, err := cal.ParseCaldavURL(*caldav)
CallParseCaldavURL ==
  /\ ret = <<>>
  /\ ret' = <<ParseCaldavURL(arg.raw)>>
  /\ UNCHANGED <<now, maxAge, lockFile, storeFile, calendar, sent, pc, acqNow,
                 dry, data, idx, log, result, exitCode, runs, cleanDone>>
  /\ UNCHANGED <<saveVars, arg, fetchVars>>

NextURL == CallParseCaldavURL

SpecURL == InitURL /\ [][NextURL]_vars

(* ------------------ ParseCaldavURL on escaped segments ------------------ *)
\* what a principal or a secret is written with: plain characters, escapes
\* of two hex digits, and a '%' that no two hex digits follow
Pieces ==
  { <<"a">>, <<"+">>, <<"%", "4", "0">>, <<"%", "2", "B">>, <<"%", "k">>, <<"%">> }

\* the segments of 1..MaxTok pieces
Segments == UNION { [1..n -> Pieces] : n \in 1..MaxTok }

\* the text of a segment
RECURSIVE Flatten(_)
Flatten(seg) == IF seg = <<>> THEN <<>> ELSE Head(seg) \o Flatten(Tail(seg))

\* the connection strings https://user:pass@h/x, with their segments
EscapedStrings ==
  { [raw |-> <<"h", "t", "t", "p", "s", ":", "/", "/">> \o Flatten(u) \o <<":">>
             \o Flatten(p) \o <<"@", "h", "/", "x">>,
     user |-> u, pass |-> p] : u \in Segments, p \in Segments }

InitEscaped ==
  /\ now = 0
  /\ maxAge = OneMinute
  /\ lockFile = NoLock
  /\ storeFile = NoStore
  /\ calendar = <<>>
  /\ sent = [k \in AllKeys |-> 0]
  /\ ProcInit
  /\ tmpFile = NoStore
  /\ arg \in EscapedStrings
  /\ ret = <<>>
  /\ server = <<>>
  /\ filter = <<>>
  /\ net = <<>>
  /\ ci = 0
  /\ fetched = <<>>

SpecEscaped == InitEscaped /\ [][NextURL]_vars

(* ------------------ ParseCaldavURL on any input, main ------------------ *)
\* the connection strings a user may write, well-formed or not, with the
\* secret they hold
RawInputs ==
  { [raw |-> s \o sep \o a \o <<":">> \o p \o <<"@">> \o h \o <<"/", "x">>,
     p |-> p] :
      s \in Schemes \cup { <<"f", "t", "p">> },
      sep \in { <<":", "/", "/">>, <<":", "/">> },
      a \in Tokens({"a"}) \cup { <<>> },
      p \in Tokens({"k", "%"}),
      h \in Hosts \cup { <<>>, <<"h", ":", "x">> } }

InitParse ==
  /\ now = 0
  /\ maxAge = OneMinute
  /\ lockFile = NoLock
  /\ storeFile = NoStore
  /\ calendar = <<>>
  /\ sent = [k \in AllKeys |-> 0]
  /\ ProcInit
  /\ tmpFile = NoStore
  /\ arg \in RawInputs
  /\ ret = <<>>
  /\ server = <<>>
  /\ filter = <<>>
  /\ net = <<>>
  /\ ci = 0
  /\ fetched = <<>>

\* what log.Fatal(err) prints
FatalEntry(text) == [op |-> "Fatal", text |-> text]

\* main.go:38-40  run() returned the error of ParseCaldavURL: log.Fatal(err)
\* prints its text, with what it quotes, and exits with 1
MainLogFatal ==
  /\ ret # <<>> /\ ~ret[1].ok
  /\ pc[1] = "idle"
  /\ log' = [log EXCEPT ![1] = <<FatalEntry(ret[1].quoted)>>]
  /\ pc' = [pc EXCEPT ![1] = "exited"]
  /\ exitCode' = [exitCode EXCEPT ![1] = ExitFatal]
  /\ UNCHANGED <<now, maxAge, lockFile, storeFile, calendar, sent, acqNow,
                 dry, data, idx, result, runs, cleanDone>>
  /\ UNCHANGED auxVars

NextParse == CallParseCaldavURL \/ MainLogFatal

SpecParse == InitParse /\ [][NextParse]_vars

(* ------------------------- parseICalDateTime --------------------------- *)
\* hours of a day of the model; instants count hours since day 0, 00:00 UTC
HoursPerDay == 4

\* the zones time.LoadLocation knows here, and the hours they are ahead of UTC
Locations == {"UTC", "Europe/Vienna", "Asia/Tokyo"}
UTCOffset(loc) ==
  CASE loc = "UTC" -> 0 [] loc = "Europe/Vienna" -> 1 [] loc = "Asia/Tokyo" -> 2

\* time.Date(day, hour, loc): the instant of a wall clock reading in a zone
DateIn(day, hour, loc) == day * HoursPerDay + hour - UTCOffset(loc)

\* the text of a value, as its runs of digits (w digits that read n) and
\* its letters
Digit(w, n) == [c |-> "d", w |-> w, n |-> n]
LetterT == [c |-> "T", w |-> 1, n |-> 0]
LetterZ == [c |-> "Z", w |-> 1, n |-> 0]

\* len(v)
RECURSIVE TextLen(_)
TextLen(v) == IF v = <<>> THEN 0 ELSE Head(v).w + TextLen(Tail(v))

\* strings.Contains(v, "T")
ContainsT(v) == \E i \in 1..Len(v) : v[i].c = "T"

\* strings.HasSuffix(v, "Z")
HasSuffixZ(v) == v # <<>> /\ v[Len(v)].c = "Z"

\* the UTC rule gives way to a TZID parameter
UTCRuleUnlessTZID(v, tzid) == HasSuffixZ(v) /\ tzid = ""

\* main.go:588  the UTC rule applies, whatever the TZID parameter
UTCRule(v, tzid) == HasSuffixZ(v)

\* time.Parse and time.ParseInLocation with the layouts of
\* parseICalDateTime; w is the width of the clock part (6 with seconds, 4
\* without), 0 for the layout of a bare date
MatchesLayout(v, w, z) ==
  LET n == IF w = 0 THEN 1 ELSE IF z THEN 4 ELSE 3
  IN  /\ Len(v) = n
      /\ v[1].c = "d" /\ v[1].w = 8
      /\ w > 0 => /\ v[2].c = "T"
                  /\ v[3].c = "d" /\ v[3].w = w
      /\ z => v[n].c = "Z"

\* the instant a matching text reads in a zone
ParseInLocation(v, loc) == DateIn(v[1].n, IF Len(v) >= 3 THEN v[3].n ELSE 0, loc)

\* strings.ToUpper of a VALUE parameter
ToUpper(s) == CASE s = "date" -> "DATE" [] s = "date-time" -> "DATE-TIME" [] OTHER -> s

\* time.LoadLocation(tzid) succeeds
Recognized(tzid) == tzid \in Locations

DateTimeError == [err |-> TRUE, t |-> 0, isDate |-> FALSE]
DateTimeAt(t, isDate) == [err |-> FALSE, t |-> t, isDate |-> isDate]

\* parseICalDateTime(p, defaultTZ) for a property with a value and the
\* parameters VALUE and TZID ("" when absent)
parseICalDateTime(p, defaultTZ) ==
  LET v == p.Value
      valueType == ToUpper(p.VALUE)
      tzid == p.TZID
      loc == IF tzid # "" /\ Recognized(tzid) THEN tzid ELSE defaultTZ
  IN  IF v = <<>> THEN DateTimeError
      ELSE IF valueType = "DATE" \/ (TextLen(v) = 8 /\ ~ContainsT(v))
        THEN IF MatchesLayout(v, 0, FALSE)
             THEN DateTimeAt(ParseInLocation(v, defaultTZ), TRUE)
             ELSE [DateTimeError EXCEPT !.isDate = TRUE]
      ELSE IF UTCRule(v, tzid)
        THEN IF MatchesLayout(v, 6, TRUE) \/ MatchesLayout(v, 4, TRUE)
             THEN DateTimeAt(ParseInLocation(v, "UTC"), FALSE)
             ELSE DateTimeError
      ELSE IF MatchesLayout(v, 6, FALSE) \/ MatchesLayout(v, 4, FALSE)
        THEN DateTimeAt(ParseInLocation(v, loc), FALSE)
        ELSE DateTimeError

\* the values a server sends: dates, local and UTC date-times with and
\* without seconds, and texts that match no layout
DateValues ==
  LET date == { <<Digit(8, d)>> : d \in 1..2 }
      clock == { <<LetterT, Digit(w, h)>> : w \in {4, 6}, h \in {0, HoursPerDay - 1} }
      local == { d \o c : d \in date, c \in clock }
  IN  date \cup local \cup { l \o <<LetterZ>> : l \in local }
        \cup { <<>>, <<Digit(6, 1)>>, <<Digit(7, 1), LetterZ>>,
               <<Digit(8, 1), LetterZ>>, <<Digit(8, 1), LetterT, Digit(2, 0)>>,
               <<Digit(8, 1), LetterT, Digit(2, 0), LetterZ>> }

\* DTSTART and DTEND properties, with their parameters
DateProps ==
  [Value : DateValues, VALUE : {"", "DATE", "date", "DATE-TIME"},
   TZID : {"", "Europe/Vienna", "Nowhere"}]

InitDate ==
  /\ now = 0
  /\ maxAge = OneMinute
  /\ lockFile = NoLock
  /\ storeFile = NoStore
  /\ calendar = <<>>
  /\ sent = [k \in AllKeys |-> 0]
  /\ ProcInit
  /\ tmpFile = NoStore
  /\ arg \in [p : DateProps, defaultTZ : {"UTC", "Asia/Tokyo"}]
  /\ ret = <<>>
  /\ server = <<>>
  /\ filter = <<>>
  /\ net = <<>>
  /\ ci = 0
  /\ fetched = <<>>

\* main.go:508  start, startIsDate, err := parseICalDateTime(dtStart, defaultTZ)
CallParseICalDateTime ==
  /\ ret = <<>>
  /\ ret' = <<parseICalDateTime(arg.p, arg.defaultTZ)>>
  /\ UNCHANGED <<now, maxAge, lockFile, storeFile, calendar, sent, pc, acqNow,
                 dry, data, idx, log, result, exitCode, runs, cleanDone>>
  /\ UNCHANGED <<saveVars, arg, fetchVars>>

NextDate == CallParseICalDateTime

SpecDate == InitDate /\ [][NextDate]_vars

(* ------------------- doDAV and redirects: http.Client ------------------- *)
\* redirects one request may be sent through
MaxRedirects == 3

\* requests of one fetch: principal, home set, calendar list, and a query
\* per calendar
MaxSteps == 4

\* the host of the endpoint, and hosts a server redirects to
EndpointHost == "caldav.icloud.com"
RedirectHosts == {EndpointHost, "p01-caldav.icloud.com", "example.org"}

\* req.SetBasicAuth(user, pass): the value of the Authorization header
BasicAuth(user, pass) == <<"Basic", user, pass>>
NoHeader == <<>>

\* the credentials of a run
Credentials == { [user |-> "a@b", pass |-> p] : p \in {"k", "w"} }

\* a request on the wire
HttpRequest(host, auth) == [host |-> host, auth |-> auth]

\* http.Client copies the headers of the first request of the chain into the
\* next one, without Authorization when the redirect leaves the first host;
\* whether the header comes back on a later hop to the first host depends
\* on the release of net/http
CopiedAuth(via, host) ==
  IF host # via[1].host THEN {NoHeader}
  ELSE IF \E i \in 1..Len(via) : via[i].host # via[1].host
  THEN {NoHeader, via[1].auth}
  ELSE {via[1].auth}

\* a client without the CheckRedirect of execute()
CheckRedirectAbsent(req, via) == req

\* main.go:144-152  CheckRedirect(req, via)
CheckRedirect(req, via) ==
  IF Len(via) > 0 /\ via[1].auth # NoHeader
  THEN [req EXCEPT !.auth = via[1].auth]
  ELSE req

InitRedirect ==
  /\ now = 0
  /\ maxAge = OneMinute
  /\ lockFile = NoLock
  /\ storeFile = NoStore
  /\ calendar = <<>>
  /\ sent = [k \in AllKeys |-> 0]
  /\ ProcInit
  /\ tmpFile = NoStore
  /\ arg \in Credentials
  /\ ret = <<>>
  /\ server = "idle"
  /\ filter = <<>>
  /\ net = <<>>
  /\ ci = 0
  /\ fetched = <<>>

\* main.go:265-277  doDAV builds the request of the next protocol step, sets
\* its basic auth and hands it to c.Do
DoDAV ==
  /\ server \in {"idle", "answered"}
  /\ ci < MaxSteps
  /\ ci' = ci + 1
  /\ net' = <<HttpRequest(EndpointHost, BasicAuth(arg.user, arg.pass))>>
  /\ server' = "waiting"
  /\ UNCHANGED <<now, maxAge, lockFile, storeFile, calendar, sent, pc, acqNow,
                 dry, data, idx, log, result, exitCode, runs, cleanDone>>
  /\ UNCHANGED <<saveVars, pureVars, filter, fetched>>

\* the server answers 3xx: c.Do builds the next request, copies the headers,
\* calls CheckRedirect with the requests made so far and sends it
FollowRedirect ==
  /\ server = "waiting"
  /\ Len(net) <= MaxRedirects
  /\ \E host \in RedirectHosts : \E auth \in CopiedAuth(net, host) :
       net' = Append(net, CheckRedirect(HttpRequest(host, auth), net))
  /\ UNCHANGED <<now, maxAge, lockFile, storeFile, calendar, sent, pc, acqNow,
                 dry, data, idx, log, result, exitCode, runs, cleanDone>>
  /\ UNCHANGED <<saveVars, pureVars, server, filter, ci, fetched>>

\* the server answers with a final status: c.Do returns
FinalAnswer ==
  /\ server = "waiting"
  /\ server' = "answered"
  /\ UNCHANGED <<now, maxAge, lockFile, storeFile, calendar, sent, pc, acqNow,
                 dry, data, idx, log, result, exitCode, runs, cleanDone>>
  /\ UNCHANGED <<saveVars, pureVars, filter, net, ci, fetched>>

NextRedirect == DoDAV \/ FollowRedirect \/ FinalAnswer

SpecRedirect == InitRedirect /\ [][NextRedirect]_vars

(* --------------------------- the query window -------------------------- *)
\* a time.Time: an instant and the zone its wall clock is read in
TimeIn(t, loc) == [t |-> t, loc |-> loc]

\* d.Year(), d.Month(), d.Day(): the calendar day of d in d's own zone
DayOf(d) == (d.t + UTCOffset(d.loc)) \div HoursPerDay

\* d.AddDate(0, 0, days)
AddDate(d, days) == TimeIn(d.t + days * HoursPerDay, d.loc)

\* main.go:249-251  startOfDay(d, loc)
startOfDay(d, loc) == TimeIn(DateIn(DayOf(d), 0, loc), loc)

\* main.go:254-257  endOfDay(d, loc)
endOfDay(d, loc) == AddDate(startOfDay(d, loc), 1)

\* main.go:77-83  the window of a run at instant t on a machine whose zone
\* is local, for the configured zone loc and the lead-time in days
QueryWindow(t, local, loc, days) ==
  LET day == AddDate(TimeIn(t, local), days)
  IN  [Start |-> startOfDay(day, loc), End |-> endOfDay(day, loc)]

InitWindow ==
  /\ now = 0
  /\ maxAge = OneMinute
  /\ lockFile = NoLock
  /\ storeFile = NoStore
  /\ calendar = <<>>
  /\ sent = [k \in AllKeys |-> 0]
  /\ ProcInit
  /\ tmpFile = NoStore
  /\ arg \in [t : 0..(2 * HoursPerDay - 1), local : Locations, loc : Locations,
              offset : 1..MaxOffset]
  /\ ret = <<>>
  /\ server = <<>>
  /\ filter = <<>>
  /\ net = <<>>
  /\ ci = 0
  /\ fetched = <<>>

\* main.go:77-85  run() computes the window of the query
ComputeWindow ==
  /\ ret = <<>>
  /\ ret' = <<QueryWindow(arg.t, arg.local, arg.loc, arg.offset)>>
  /\ UNCHANGED <<now, maxAge, lockFile, storeFile, calendar, sent, pc, acqNow,
                 dry, data, idx, log, result, exitCode, runs, cleanDone>>
  /\ UNCHANGED <<saveVars, arg, fetchVars>>

NextWindow == ComputeWindow

SpecWindow == InitWindow /\ [][NextWindow]_vars

(* ------------------------ eventMessageKey alone ------------------------ *)
\* the events a key is derived for
KeyEvents ==
  [UID : {"E1", "E2"}, Start : 0..MaxStart, zone : Zones,
   num : {"", "+436604670967"}]

\* two invocations, each with its event and its -offset
InitKey ==
  /\ now = 0
  /\ maxAge = OneMinute
  /\ lockFile = NoLock
  /\ storeFile = NoStore
  /\ calendar = <<>>
  /\ sent = [k \in AllKeys |-> 0]
  /\ ProcInit
  /\ tmpFile = NoStore
  /\ arg \in [Procs -> [event : KeyEvents, offset : 1..MaxOffset]]
  /\ ret = [p \in {} |-> <<>>]
  /\ server = <<>>
  /\ filter = <<>>
  /\ net = <<>>
  /\ ci = 0
  /\ fetched = <<>>

\* main.go:98  key := eventMessageKey(event) in invocation p
DeriveKey(p) ==
  /\ p \notin DOMAIN ret
  /\ ret' = [q \in DOMAIN ret \cup {p} |->
              IF q = p THEN eventMessageKey(arg[p].event, arg[p].offset)
              ELSE ret[q]]
  /\ UNCHANGED <<now, maxAge, lockFile, storeFile, calendar, sent, pc, acqNow,
                 dry, data, idx, log, result, exitCode, runs, cleanDone>>
  /\ UNCHANGED <<saveVars, arg, fetchVars>>

NextKey == (\E p \in Procs : DeriveKey(p)) \/ TickOne

SpecKey == InitKey /\ [][NextKey]_vars

(* ------------------------------ claims --------------------------------- *)
\* the process has returned from AcquireLock with the Lock and not ended
Holding == {"open", "config", "loop", "mark"}

Active(p) == pc[p] \notin {"idle", "exited"}

\* the keys of the fetched events that carry a phone number
PhoneKeys ==
  { eventMessageKey(calendar[i], DefaultOffset) :
      i \in {j \in 1..Len(calendar) : EventPhoneNumber(calendar[j]) # ""} }

\* C1: over all invocations, overlapping, slow or killed ones included, the
\* send capability is invoked at most once for each NotificationKey. Counted
\* are the invocations that returned nil: a send that failed and is repeated
\* by a later invocation does not yet break it.
C1_SendAtMostOnce == \A k \in AllKeys : sent[k] <= 1

\* C2: once an invocation without -dry-run has returned nil, an invocation
\* started after it on the same events finds every key marked, both in the
\* store file and in the mapping it loaded, and invokes neither send nor Mark.
C2_SecondRunSendsNothing ==
  cleanDone =>
    /\ PhoneKeys \subseteq DOMAIN load(storeFile)
    /\ \A p \in Procs :
         /\ Active(p) => log[p] = <<>>
         /\ pc[p] \in {"config", "loop"} => PhoneKeys \subseteq DOMAIN data[p]

\* a second invocation stands in the loop, past an event with a phone number,
\* after a first one sent for it and returned nil
C2_Witness ==
  /\ cleanDone
  /\ \E k \in AllKeys : sent[k] = 1
  /\ \E p \in Procs :
       /\ pc[p] = "loop" /\ ~dry[p] /\ idx[p] > 1
       /\ EventPhoneNumber(calendar[idx[p] - 1]) # ""

\* C5: whichever way an invocation that acquired the lock ends by itself
\* (return of nil or of an error, log.Fatal), the lock file is gone when the
\* process has exited.
C5_LockReleasedOnExit ==
  [][\A p \in Procs :
       (pc[p] \in Holding /\ pc'[p] = "exited" /\ result'[p] # "killed")
         => ~lockFile'.exists]_vars

\* C6: the exit code is 0 only after a successful run or when the lock is held
\* fresh by another run.
C6_ExitCodes ==
  \A p \in Procs :
    (pc[p] = "exited" /\ exitCode[p] = ExitQuiet) => result[p] \in {"ok", "held"}

\* C7: a step of an invocation with -dry-run that stands in the event loop
\* invokes neither send nor Mark and leaves the store file and the mapping
\* in memory as they were.
C7_DryRunFrame ==
  [][\A p \in Procs :
       (dry[p] /\ pc[p] = "loop" /\ <<pc[p], idx[p]>> # <<pc'[p], idx'[p]>>)
         => /\ sent' = sent
            /\ storeFile' = storeFile
            /\ log'[p] = <<>>
            /\ pc'[p] = "loop" => data'[p] = data[p]]_vars

\* a dry run has passed an event with a phone number whose key is not marked
C7_Witness ==
  \E p \in Procs :
    /\ dry[p] /\ pc[p] = "loop" /\ idx[p] > 1
    /\ EventPhoneNumber(calendar[idx[p] - 1]) # ""
    /\ ~Exists(data[p], eventMessageKey(calendar[idx[p] - 1], DefaultOffset))

\* C8: in the calls of one invocation, every Mark of a key directly follows a
\* send for that key that returned nil, an invocation about to Mark has just
\* sent, and a key whose send returned an error is not marked.
C8_MarkOnlyAfterSend ==
  \A p \in Procs :
    /\ \A i \in 1..Len(log[p]) :
         log[p][i].op = "mark" =>
           i > 1 /\ log[p][i - 1] = SendEntry(log[p][i].key, TRUE)
    /\ \A i, j \in 1..Len(log[p]) :
         (log[p][i].op = "send" /\ ~log[p][i].ok /\ log[p][j].op = "mark")
           => log[p][j].key # log[p][i].key
    /\ pc[p] = "mark" =>
         /\ Len(log[p]) > 0
         /\ log[p][Len(log[p])] = SendEntry(CurrentKey(p), TRUE)

\* an invocation has sent for a key and marked it
C8_Witness ==
  \E p \in Procs : \E i \in 1..Len(log[p]) :
    /\ log[p][i] = MarkEntry(log[p][i].key, TRUE)
    /\ log[p][i].key \in DOMAIN load(storeFile)

\* a send of this invocation returned an error
SendFailedAt(p, i) == log[p][i].op = "send" /\ ~log[p][i].ok

\* C9: a send that returns an error is the last call of its invocation, which
\* has exited with the error through log.Fatal, and the step of the failed
\* send leaves the store file, with the keys marked before, as it was.
C9_SendFailureStopsRun ==
  /\ [](\A p \in Procs : \A i \in 1..Len(log[p]) :
          SendFailedAt(p, i) =>
            /\ i = Len(log[p])
            /\ pc[p] = "exited"
            /\ result[p] = "send"
            /\ exitCode[p] = ExitFatal)
  /\ [][\A p \in Procs :
          ( /\ Len(log'[p]) = Len(log[p]) + 1
            /\ log'[p][Len(log'[p])].op = "send"
            /\ ~log'[p][Len(log'[p])].ok )
            => storeFile' = storeFile]_vars

\* the send for a second event failed after the first event's key was marked
C9_Witness ==
  \E p \in Procs :
    /\ Len(log[p]) = 3
    /\ log[p][2] = MarkEntry(log[p][2].key, TRUE)
    /\ SendFailedAt(p, 3)
    /\ log[p][2].key \in DOMAIN load(storeFile)

\* the age the lock gives the record of p's acquisition: now minus the
\* recorded instant, which holds whole seconds
RecordedAge(p) == now - ParseRFC3339(FormatRFC3339(acqNow[p]))

\* C3: no two processes hold the Lock that AcquireLock returned to them, both
\* acquired less than maxAge ago, neither having released it.
C3_MutualExclusion ==
  \A p, q \in Procs :
    (p # q /\ pc[p] = "open" /\ pc[q] = "open")
      => ~(RecordedAge(p) < maxAge /\ RecordedAge(q) < maxAge)

\* the record AcquireLock leaves for caller p
LockRecordOf(p) ==
  [exists |-> TRUE, ino |-> p, written |-> TRUE, pid |-> p,
   ts |-> FormatRFC3339(acqNow[p])]

\* C4: for every maxAge, calls made one at a time: a call that finds a record
\* of an age (its now minus the recorded instant) below maxAge returns the
\* held error and leaves the record; one that finds an age of maxAge or more
\* clears the record, creates the file again without failing, and returns
\* with the record holding its own process id and acquisition instant.
C4_SecondAcquire ==
  /\ [](\A p \in Procs :
          /\ pc[p] = "acq_retry" => ~lockFile.exists
          /\ pc[p] = "acq_write" => lockFile = CreatedLock(p)
          /\ result[p] \notin {"lock-read", "lock-invalid", "lock-retry"})
  /\ [][\A p \in Procs :
          /\ (pc[p] = "acq_read" /\ pc'[p] # pc[p]) =>
               /\ lockFile.written
               /\ acqNow[p] - ParseRFC3339(lockFile.ts) < maxAge =>
                    /\ pc'[p] = "exited" /\ result'[p] = "held"
                    /\ lockFile' = lockFile
               /\ acqNow[p] - ParseRFC3339(lockFile.ts) >= maxAge =>
                    pc'[p] = "acq_remove"
          /\ (pc[p] = "acq_write" /\ pc'[p] # pc[p]) =>
               pc'[p] = "open" /\ lockFile' = LockRecordOf(p)]_vars

\* a second caller holds the lock it took over from a holder that never
\* released it, its record in the file
C4_Witness ==
  \E p, q \in Procs :
    /\ p # q /\ pc[p] = "open" /\ pc[q] = "open"
    /\ lockFile = LockRecordOf(p)
    /\ acqNow[p] - acqNow[q] >= maxAge

\* C10: every Mark leaves Exists(k) true and returns an error only when the
\* file system refused the write; a Mark of a key that is already marked
\* also leaves the set of keys as it was.
C10_MarkIdempotent ==
  [][\A p \in Procs : \A k \in AllKeys :
       (runs' # runs /\ log'[p] # <<>> /\ log'[p][1].op = "Mark" /\ log'[p][1].key = k)
         => /\ Exists(data'[p], k)
            /\ log'[p][1].io => ~log'[p][1].err
            /\ Exists(data[p], k) => DOMAIN data'[p] = DOMAIN data[p]]_vars

\* Mark of a key that the Store holds from an earlier Mark, at a later
\* instant, has returned nil
C10_Witness ==
  \E k \in AllKeys :
    /\ log[1] = <<CallEntry("Mark", k, TRUE, FALSE)>>
    /\ Exists(data[1], k)
    /\ runs >= 2
    /\ Exists(load(storeFile), k) /\ load(storeFile)[k] = now /\ now > 0

\* C11: a Store opened on the path after a Mark or Delete that returned nil
\* holds exactly the keys the Store held in memory, so Exists(k) is true after
\* reopening for every key marked and not deleted; the file then decodes;
\* and Open on a path without a file returns the empty Store and no error.
C11_RoundTrip ==
  [][\A p \in Procs :
       /\ ( /\ runs' # runs /\ log'[p] # <<>>
            /\ log'[p][1].op \in {"Mark", "Delete"} /\ ~log'[p][1].err )
            => /\ ~loadFails(storeFile')
               /\ DOMAIN load(storeFile') = DOMAIN data'[p]
       /\ ( /\ runs' # runs /\ log[p] # <<>> /\ log'[p] # <<>>
            /\ log[p][1].op \in {"Mark", "Delete"} /\ ~log[p][1].err
            /\ log'[p][1].op = "Open" )
            => /\ ~log'[p][1].err
               /\ DOMAIN data'[p] = DOMAIN data[p]
       /\ ( /\ runs' # runs /\ log'[p] # <<>> /\ log'[p][1].op = "Open"
            /\ ~storeFile.exists )
            => ~log'[p][1].err /\ data'[p] = EmptyData]_vars

\* a Store was opened on a file that a Mark of a second key left behind
C11_Witness ==
  /\ log[1] = <<CallEntry("Open", <<>>, TRUE, FALSE)>>
  /\ runs >= 3
  /\ Cardinality(DOMAIN data[1]) >= 2
  /\ storeFile.exists

\* C12: whichever step of a Mark or Delete the process is killed at, the file
\* at the store path holds the whole mapping from before the call or the
\* whole new mapping: it always decodes, a step changes it only to the
\* encoding of the whole mapping in memory, and an Open after the kill
\* returns no error.
C12_CrashAtomicSave ==
  /\ [](~loadFails(storeFile))
  /\ [][storeFile' # storeFile =>
          \E p \in Procs :
            pc[p] = "save_rename" /\ storeFile' = SavedStore(data[p])]_vars
  /\ [][\A p \in Procs :
          (pc[p] = "exited" /\ pc'[p] # "exited") =>
                /\ ~log'[p][1].err
                /\ pc'[p] = "idle"
                /\ data'[p] \in {load(storeFile)}]_vars

\* the process was killed while a part of the new text was in tmp, the store
\* file holding an earlier mapping, and a new process has opened the Store
C12_Witness ==
  /\ pc[1] = "idle"
  /\ log[1] = <<CallEntry("Open", <<>>, TRUE, FALSE)>>
  /\ tmpFile.exists /\ ~tmpFile.text.closed /\ tmpFile.text.recs # {}
  /\ storeFile.exists
  /\ data[1] = load(storeFile)
  /\ data[1] # EmptyData

\* C13: over all invocations on one state directory, overlapping ones
\* included, a key that the store file holds is in the store file after
\* every later step.
C13_StoreGrows ==
  [][DOMAIN load(storeFile) \subseteq DOMAIN load(storeFile')]_vars

\* C14: two invocations that handle the same event identifier, the same start
\* instant to the second and the same lead-time derive the same key.
C14_KeyDeterministic ==
  \A p, q \in DOMAIN ret :
    ( /\ arg[p].event.UID = arg[q].event.UID
      /\ arg[p].event.Start \div TicksPerSecond = arg[q].event.Start \div TicksPerSecond
      /\ arg[p].offset = arg[q].offset )
      => ret[p] = ret[q]

\* C15: a run that ends with a configuration error (the connection string
\* does not parse, the timezone is unknown) has issued no protocol request
\* and invoked no send.
C15_ConfigErrorBeforeNetwork ==
  \A p \in Procs :
    (pc[p] = "exited" /\ result[p] \in {"caldav-url", "timezone"})
      => /\ net = <<>>
         /\ log[p] = <<>>
         /\ \A k \in AllKeys : sent[k] = 0

\* the run has ended on the unknown timezone, after the connection string
\* parsed
C15_Witness ==
  /\ pc[1] = "exited" /\ result[1] = "timezone" /\ exitCode[1] = ExitFatal
  /\ Len(server) > 0

\* C16: the requests of a fetch are, in this order, the principal discovery,
\* the calendar-home discovery, the calendar enumeration and the time-ranged
\* queries, each of the first three issued only after the one before it was
\* answered; after a failed principal or calendar-home discovery no request
\* follows, the fetch has returned its error and no event.
C16_FetchOrder ==
  /\ \A i \in 1..Len(net) :
       /\ i = 1 => net[i].req = "principal"
       /\ i = 2 => net[i].req = "home" /\ net[1].ok
       /\ i = 3 => net[i].req = "list" /\ net[2].ok
       /\ i > 3 => net[i].req = "report" /\ net[3].ok
  /\ \A i \in 1..Len(net) :
       (net[i].req \in {"principal", "home"} /\ ~net[i].ok)
         => /\ i = Len(net)
            /\ pc[1] = "exited" /\ result[1] = "fetch" /\ exitCode[1] = ExitFatal
            /\ fetched = <<>> /\ calendar = <<>>

\* the calendar-home discovery failed after the principal was found
C16_Witness ==
  /\ Len(net) = 2 /\ net[1].ok /\ ~net[2].ok
  /\ pc[1] = "exited"
  /\ Len(server) > 0

\* the time-ranged query for calendar i was answered
ReportOk(i) == \E j \in 1..Len(net) : net[j] = Request("report", i, TRUE)

\* the name passes the filter: no filter, or a filter name equal to it when
\* both are written in lower case
NameSelected(name) ==
  \/ filter = <<>>
  \/ \E k \in 1..Len(filter) :
       [i \in DOMAIN name |-> Fold(name[i])] = [i \in DOMAIN filter[k] |-> Fold(filter[k][i])]

\* the events of the first n calendars whose query was answered
RECURSIVE EventsUpTo(_)
EventsUpTo(n) ==
  IF n = 0 THEN <<>>
  ELSE EventsUpTo(n - 1) \o
       (IF ReportOk(n) THEN ExtractBlobs(server[n].blobs, 1) ELSE <<>>)

\* C17: once the calendars are enumerated, the query is issued for every
\* selected calendar the loop has passed, whether or not an earlier query
\* failed or came back empty; the events of the answered queries are what
\* the fetch holds and returns, and the fetch returns no error.
C17_QueryFailureSkipsCalendar ==
  (Len(net) >= 3 /\ net[3].ok) =>
    /\ \A i \in 1..(ci - 1) :
         NameSelected(server[i].name) => \E j \in 1..Len(net) : net[j].req = "report" /\ net[j].cal = i
    /\ fetched = EventsUpTo(ci - 1)
    /\ result[1] # "fetch"
    /\ pc[1] # "fetch_cal" => (ci = Len(server) + 1 /\ (pc[1] = "loop" => calendar = fetched))

\* the fetch has returned the events of the second calendar after the query
\* for the first failed
C17_Witness ==
  /\ pc[1] = "loop" /\ idx[1] = 1
  /\ Len(net) = 5 /\ ~net[4].ok /\ net[5].ok
  /\ calendar # <<>>

\* C18: the calendars the time-ranged query was issued for are exactly the
\* passed calendars whose display name equals a filter name when case is
\* ignored, and all passed calendars when the filter is empty.
C18_FilterExactIgnoringCase ==
  ci >= 1 =>
    {net[j].cal : j \in {n \in 1..Len(net) : net[n].req = "report"}}
      = {i \in 1..(ci - 1) : NameSelected(server[i].name)}

\* with a filter, the query went to a calendar whose name differs from the
\* filter name in case only, and not to one whose name starts a filter name
C18_Witness ==
  /\ filter # <<>>
  /\ ci = 3
  /\ \E j \in 1..Len(net) :
       /\ net[j].req = "report"
       /\ server[net[j].cal].name \notin {filter[k] : k \in 1..Len(filter)}
  /\ \E i \in 1..2 :
       /\ ~NameSelected(server[i].name)
       /\ \E k \in 1..Len(filter) : HasPrefixFold(filter[k], server[i].name)

\* a VEVENT of the blob has a DTSTART or DTEND that matches no pattern
HasBadEvent(blob) ==
  \E i \in 1..Len(blob) : \E j \in 1..Len(blob[i]) : blob[i][j].dt = "bad"

\* the events of all VEVENTs of the blob that have a DTSTART, in order
RECURSIVE EventsOfBlob(_, _)
EventsOfBlob(blob, i) ==
  IF i > Len(blob) THEN <<>>
  ELSE LET kept == SelectSeq(blob[i], LAMBDA it : it.dt = "ok")
       IN  [n \in 1..Len(kept) |-> kept[n].ev] \o EventsOfBlob(blob, i + 1)

\* per blob, in order: nothing for a blob with such a VEVENT, every event
\* for the others
RECURSIVE EventsOfValidBlobs(_, _)
EventsOfValidBlobs(blobs, j) ==
  IF j > Len(blobs) THEN <<>>
  ELSE (IF HasBadEvent(blobs[j]) THEN <<>> ELSE EventsOfBlob(blobs[j], 1))
       \o EventsOfValidBlobs(blobs, j + 1)

\* C19: of a blob with a VEVENT whose DTSTART or DTEND matches no pattern, no
\* event is in the result; of every other blob of the answer, before or
\* after it, every event is.
C19_BadBlobYieldsNothing ==
  ret # <<>> => ret[1] = EventsOfValidBlobs(arg, 1)

\* C20: for every connection string scheme://a@b:p@host/x, ParseCaldavURL
\* returns no error, the principal a@b whole, the secret p, the host host and
\* the path /x: the credentials end at the last '@' of the authority.
C20_SplitAtLastAt ==
  ret # <<>> =>
    /\ ret[1].ok
    /\ ret[1].AppleID = arg.a \o <<"@">> \o arg.b
    /\ ret[1].HasPass /\ ret[1].Password = arg.p
    /\ ret[1].BaseURL.Host = arg.host
    /\ ret[1].BaseURL.Path = <<"/">> \o arg.x
    /\ ret[1].BaseURL.User = <<>>

\* a connection string was parsed whose secret and path hold an '@' too
C20_Witness ==
  /\ ret # <<>> /\ ret[1].ok
  /\ \E i \in 1..Len(arg.p) : arg.p[i] = "@"
  /\ \E i \in 1..Len(arg.x) : arg.x[i] = "@"
  /\ ret[1].AppleID = arg.a \o <<"@">> \o arg.b

\* s holds sub as a run of consecutive characters
Contains(s, sub) ==
  \E i \in 1..(Len(s) - Len(sub) + 1) : SubSeq(s, i, i + Len(sub) - 1) = sub

\* C21: for every connection string, accepted or rejected, the secret is
\* neither in the text of the returned base URL nor in the error text that
\* main logs.
C21_SecretNeverLogged ==
  /\ (ret # <<>> /\ ret[1].ok) => ~Contains(URLString(ret[1].BaseURL), arg.p)
  /\ \A i \in 1..Len(log[1]) : ~Contains(log[1][i].text, arg.p)

\* the shapes of a value: a date of 8 digits, a date-time with a clock of 4
\* or 6 digits, the same with the UTC marker
IsDate8(v) == Len(v) = 1 /\ v[1].c = "d" /\ v[1].w = 8
IsDateTime(v) ==
  /\ Len(v) = 3 /\ IsDate8(<<v[1]>>) /\ v[2].c = "T"
  /\ v[3].c = "d" /\ v[3].w \in {4, 6}
IsDateTimeZ(v) == Len(v) = 4 /\ IsDateTime(SubSeq(v, 1, 3)) /\ v[4].c = "Z"

\* C22: a date (typed VALUE=DATE, or of 8 digits) is midnight of that day in
\* the default zone; else a value with the UTC marker is that UTC instant,
\* whatever the TZID and the default zone; else a value with a recognized
\* TZID is read in that zone; else it is read in the default zone; a value
\* of no recognized shape is an error.
C22_DateRules ==
  ret # <<>> =>
    LET v == arg.p.Value
        r == ret[1]
        typedDate == arg.p.VALUE \in {"DATE", "date"}
    IN  /\ IsDate8(v) =>
              ~r.err /\ r.isDate /\ r.t = DateIn(v[1].n, 0, arg.defaultTZ)
        /\ (IsDateTimeZ(v) /\ ~typedDate) =>
              ~r.err /\ ~r.isDate /\ r.t = DateIn(v[1].n, v[3].n, "UTC")
        /\ (IsDateTime(v) /\ ~typedDate) =>
              /\ ~r.err /\ ~r.isDate
              /\ r.t = DateIn(v[1].n, v[3].n,
                              IF arg.p.TZID \in Locations THEN arg.p.TZID
                              ELSE arg.defaultTZ)
        /\ (~IsDate8(v) /\ ~IsDateTime(v) /\ ~IsDateTimeZ(v)) => r.err
        /\ (typedDate /\ ~IsDate8(v)) => r.err

\* a UTC value that carries a recognized TZID was resolved, under a default
\* zone that is not UTC
C22_Witness ==
  /\ ret # <<>> /\ ~ret[1].err
  /\ IsDateTimeZ(arg.p.Value) /\ arg.p.TZID = "Europe/Vienna"
  /\ arg.defaultTZ = "Asia/Tokyo"
  /\ ret[1].t = DateIn(arg.p.Value[1].n, arg.p.Value[3].n, "UTC")

\* C23: every request of a redirect chain, at any depth and on any host,
\* carries the Authorization header of the first request of its protocol
\* step, which is the basic auth of the run's credentials.
C23_RedirectKeepsAuthorization ==
  \A i \in 1..Len(net) :
    /\ net[i].auth = net[1].auth
    /\ net[i].auth = BasicAuth(arg.user, arg.pass)

\* a chain two redirects deep that left the first host and came back
C23_Witness ==
  /\ Len(net) >= 3
  /\ net[2].host # EndpointHost
  /\ net[3].host = EndpointHost
  /\ net[3].auth = BasicAuth(arg.user, arg.pass)
  /\ ci > 1

\* C24: for every run instant and every zone of the machine, the window
\* starts at midnight of the day that is today plus offset days as dated in
\* the configured zone, and ends at the following midnight there.
C24_WindowInConfiguredZone ==
  ret # <<>> =>
    LET today == (arg.t + UTCOffset(arg.loc)) \div HoursPerDay
    IN  /\ ret[1].Start.t = DateIn(today + arg.offset, 0, arg.loc)
        /\ ret[1].End.t = DateIn(today + arg.offset + 1, 0, arg.loc)

\* a piece is an escape of two hex digits, or a '%' without them
IsEscape(piece) == Len(piece) = 3 /\ piece[1] = "%"
IsMalformed(piece) == piece[1] = "%" /\ ~IsEscape(piece)

\* a segment with every escape replaced by its character and every other
\* character as given
RECURSIVE PercentDecoded(_)
PercentDecoded(seg) ==
  IF seg = <<>> THEN <<>>
  ELSE (IF IsEscape(Head(seg))
        THEN <<Chr(16 * HexVal(Head(seg)[2]) + HexVal(Head(seg)[3]))>>
        ELSE Head(seg)) \o PercentDecoded(Tail(seg))

\* C25: ParseCaldavURL decodes the principal and the secret each on its own:
\* a %XX escape becomes its character, every other character, '+' included,
\* is returned as given, and a malformed escape is an error.
C25_PercentDecoding ==
  ret # <<>> =>
    IF \E i \in 1..Len(arg.user) : IsMalformed(arg.user[i]) THEN ~ret[1].ok
    ELSE IF \E i \in 1..Len(arg.pass) : IsMalformed(arg.pass[i]) THEN ~ret[1].ok
    ELSE /\ ret[1].ok
         /\ ret[1].AppleID = PercentDecoded(arg.user)
         /\ ret[1].Password = PercentDecoded(arg.pass)

\* AcquireLock returned an error to this caller
AcquireFailed(p) ==
  pc[p] = "exited" /\ result[p] \in {"lock-read", "lock-invalid", "held", "lock-retry"}

\* C26: after the caller of AcquireLock was killed at any step, the create
\* of the lock file without the write of its record included, and with no
\* other holder, an AcquireLock called maxAge or more after the crash
\* succeeds.
C26_StaleLockRecovery == ~AcquireFailed(2)

\* C27: after any sequence of Mark and Delete calls, persisted or not,
\* Exists(k) is true only if k is in the mapping of the file at the store
\* path.
C27_ExistsOnlyIfDurable ==
  \A k \in AllKeys : Exists(data[1], k) => k \in DOMAIN load(storeFile)

\* the calls of run 1 for a key: its sends, its Marks
SendsFor(k) == { i \in 1..Len(log[1]) : log[1][i].op = "send" /\ log[1][i].key = k }
MarksFor(k) == { i \in 1..Len(log[1]) : log[1][i].op = "mark" /\ log[1][i].key = k }

\* C28: when a run without -dry-run has returned nil, each key of a fetched
\* event with a phone number that the store did not hold at the start was
\* sent exactly once and marked once, every such key is in the store file,
\* a key held at the start was not sent, and no call was made for an event
\* without a phone number.
C28_EachNewKeySentOnce ==
  cleanDone =>
    /\ \A k \in PhoneKeys :
         /\ k \in DOMAIN load(storeFile)
         /\ IF k \in DOMAIN arg[1]
            THEN SendsFor(k) = {} /\ MarksFor(k) = {} /\ sent[k] = 0
            ELSE /\ Cardinality(SendsFor(k)) = 1 /\ sent[k] = 1
                 /\ Cardinality(MarksFor(k)) = 1
    /\ \A i \in 1..Len(log[1]) : log[1][i].key \in PhoneKeys /\ log[1][i].ok
    /\ \A k \in AllKeys \ PhoneKeys :
         sent[k] = 0 /\ (k \in DOMAIN load(storeFile) => k \in DOMAIN arg[1])

\* a run has returned nil that fetched one event twice, an event without a
\* phone number and an event marked before, and sent for the new key
C28_Witness ==
  /\ cleanDone
  /\ \E i, j \in 1..Len(calendar) : i # j /\ calendar[i] = Event3 /\ calendar[j] = Event3
  /\ \E i \in 1..Len(calendar) : calendar[i] \in {Event1, Event2}
  /\ sent[eventMessageKey(Event3, DefaultOffset)] = 1
  /\ eventMessageKey(Event3, DefaultOffset) \in DOMAIN load(storeFile)

====
